---------------------------- MODULE Spec2Model ----------------------------
(***************************************************************************)
(* Visitor register (jamallaqdiem/visitor-app-azure): the request handlers *)
(* of the Express routers, the azureSqlService gateway they are given, the *)
(* retention job, and the Azure SQL tables of azure_schema_creation.sql.   *)
(*                                                                         *)
(* Every handler is an async function: each `await` is a point where other *)
(* requests and the job may run, so each awaited statement is one action,  *)
(* together with the synchronous code that follows it up to the next await *)
(* or the response. The statements a handler runs on one sql.Transaction   *)
(* (begin .. commit or rollback) are one action: until the commit its rows *)
(* are invisible to every other connection, and the key lock of the unique *)
(* index makes a second insert of the same name wait for the first         *)
(* transaction to end.                                                     *)
(*                                                                         *)
(* Every router and the job are functions of a dbService object. The one   *)
(* the repository has, azureSqlService.js, exports no getPool and has      *)
(* executeQuery return result.recordset. The handlers are written against  *)
(* two other shapes as well (login.js and the registration router call     *)
(* dbService.getPool(); ban.js, unban.js, update_visitor_details.js,       *)
(* record_missed_visit.js and the job read rowsAffected or recordset off   *)
(* what executeQuery returns, as the objects their tests inject provide).  *)
(* The dbService a run is given is chosen at the start, among these.       *)
(***************************************************************************)
EXTENDS Integers, Sequences, FiniteSets, TLC

VARIABLES
    visitors,        \* committed rows of table visitors
    visits,          \* committed rows of table visits
    dependents,      \* committed rows of table dependents
    audit_logs,      \* committed rows of table audit_logs (a sequence)
    identity,        \* the IDENTITY(1,1) counters of the three tables
    req,             \* the requests in flight, one per slot
    job,             \* the retention job run in progress, and its locals
    now,             \* the clock (Date.now()), in retention windows
    faults,          \* how many statements the database has failed so far
    dbService        \* the dbService object the routers and the job are given

vars == <<visitors, visits, dependents, audit_logs, identity, req, job, now,
          faults, dbService>>

---------------------------------------------------------------------------
(* Bounds of the model *)

MaxSlots == 2
MaxTime == 2
MaxVisitorId == 2
MaxVisitId == 2
MaxDependentId == 2
MaxDeclared == 1
MaxJobRuns == 1
MaxFaults == 1
MaxFaultyOverlap == 0

(* 2 * 365 * 24 * 60 * 60 * 1000 ms: one unit of the clock *)
RetentionWindow == 1

Slots == 1..MaxSlots
Times == 0..MaxTime
Min(a, b) == IF a <= b THEN a ELSE b
FirstNames == {"Jane", "John"}
LastNames == {"Doe"}
Units == {"A1"}
NULL == -1

---------------------------------------------------------------------------
(* JavaScript values a handler gets back from the gateway *)

(* undefined; an array of rows; mssql's result object, whose recordset is  *)
(* recordsets[0]: undefined for a statement that returns no row set        *)
(* (INSERT, UPDATE, DELETE without OUTPUT, BEGIN/COMMIT/ROLLBACK TRAN).    *)
JsUndefined ==
    [kind |-> "undefined", rows |-> {}, hasRecordset |-> FALSE,
     recordset |-> {}, rowsAffected |-> 0]

JsArray(rows) ==
    [kind |-> "array", rows |-> rows, hasRecordset |-> FALSE,
     recordset |-> {}, rowsAffected |-> 0]

MssqlResult(hasRecordset, rows, n) ==
    [kind |-> "result", rows |-> {}, hasRecordset |-> hasRecordset,
     recordset |-> rows, rowsAffected |-> n]

(* The dbService of azureSqlService.js, and the other shapes the handlers  *)
(* are written against.                                                    *)
(* `pool` tells whether connectDb has set the pool the service queries.    *)
azureSqlService ==
    [getPool |-> FALSE, executeQuery |-> "recordset", pool |-> TRUE]

DbServices ==
    [getPool : BOOLEAN, executeQuery : {"recordset", "result"}, pool : {TRUE}]

(* azureSqlService.js: const result = await request.query(querySql);       *)
(* return result.recordset; the other shape returns result itself.         *)
executeQuery(result) ==
    IF dbService.executeQuery = "recordset"
    THEN IF result.hasRecordset THEN JsArray(result.recordset)
         ELSE JsUndefined
    ELSE result

(* `!x` *)
IsFalsy(x) == x.kind = "undefined"

(* `x.length === 0`: false when x.length is undefined *)
LengthIsZero(x) == x.kind = "array" /\ x.rows = {}

(* `x.length`, `x[0]` on what executeQuery returned: a TypeError when x is *)
(* undefined; undefined on a result object (its rows are under recordset). *)
ThrowsOnIndex(x) == x.kind = "undefined"

(* `x.rowsAffected` on what executeQuery returned: a TypeError when x is   *)
(* undefined; the property is undefined (falsy) on an array.               *)
ThrowsOnRowsAffected(x) == x.kind = "undefined"

(* `x.recordset.length`, `x.recordset[0]` on what executeQuery returned:   *)
(* a TypeError when x is undefined, when x is an array, whose recordset    *)
(* property is undefined, and when x is a result without a row set.        *)
ThrowsOnRecordset(x) == x.kind \in {"undefined", "array"} \/ ~x.hasRecordset

---------------------------------------------------------------------------
(* The tables *)

VisitorRow(id, fn, ln) ==
    [id |-> id, first_name |-> fn, last_name |-> ln, is_banned |-> FALSE]

VisitRow(id, vid, entry, exit, unit) ==
    [id |-> id, visitor_id |-> vid, entry_time |-> entry, exit_time |-> exit,
     unit |-> unit]

DependentRow(id, visit, nm) == [id |-> id, visit_id |-> visit, full_name |-> nm]

NoUniqueIndex(rows, fn, ln) == TRUE

(* CREATE UNIQUE NONCLUSTERED INDEX IX_visitors_FullName: an insert of     *)
(* (fn, ln) is rejected when a row of `rows` has that pair.                *)
IX_visitors_FullName(rows, fn, ln) ==
    \A v \in rows : ~(v.first_name = fn /\ v.last_name = ln)

NoForeignKey(rows, vid) == TRUE

(* CONSTRAINT FK_Visit_Visitor *)
FK_Visit_Visitor(rows, vid) == \E v \in rows : v.id = vid

(* CONSTRAINT FK_Dependent_Visit *)
FK_Dependent_Visit(rows, visit) == \E v \in rows : v.id = visit

Top1ByEntryAsc(rows) ==
    {v \in rows : \A w \in rows : v.entry_time <= w.entry_time}

(* TOP 1 ... ORDER BY entry_time DESC over `rows`: the rows one of which   *)
(* the statement returns (any of them on a tie).                           *)
Top1ByEntryDesc(rows) ==
    {v \in rows : \A w \in rows : w.entry_time <= v.entry_time}

NoNames(rows) == <<>>

(* The full_name column of `rows`, in the order the rows were inserted.    *)
RECURSIVE NamesById(_)
NamesById(rows) ==
    IF rows = {} THEN <<>>
    ELSE LET first == CHOOSE v \in rows : \A w \in rows : v.id <= w.id
         IN  <<first.full_name>> \o NamesById(rows \ {first})

---------------------------------------------------------------------------
(* Requests *)

NoDeps == [ok |-> TRUE, list |-> <<>>]

(* A query-string parameter that was not sent (req.query.x is undefined). *)
NoParam == [present |-> FALSE, chars |-> <<>>]

Idle ==
    [op |-> "none", pc |-> "idle", id |-> 0,
     first_name |-> "", last_name |-> "", unit |-> "",
     additional_dependents |-> NoDeps,
     pastEntryTime |-> 0, password |-> "",
     t |-> 0, visitId |-> 0, lastVisitId |-> 0,
     dependentsData |-> <<>>, status |-> 0, prev |-> 0, message |-> "",
     file |-> "none", name |-> NoParam, search |-> NoParam,
     start_date |-> NULL, end_date |-> NULL, rows |-> {}, body |-> {},
     params |-> <<>>, threw |-> FALSE, rollbackErr |-> FALSE]

dbVars == <<visitors, visits, dependents, audit_logs, identity>>

(* A slot is free once its request has been answered. *)
Free(r) == req[r].pc \in {"idle", "done"}

(* The lowest free slot takes the next request. *)
FreeSlot(r) == Free(r) /\ \A s \in Slots : s < r => ~Free(s)

(* The status of the call this slot answered just before, when that call   *)
(* was the same operation on the same visitor id; 0 otherwise.             *)
PrevStatus(r, op, id) ==
    IF req[r].pc = "done" /\ req[r].op = op /\ req[r].id = id
    THEN req[r].status ELSE 0

(* res.status(code).json(...): what stays of the request is its answer.    *)
Respond(r, code) ==
    [Idle EXCEPT !.op = req[r].op, !.pc = "done", !.status = code,
                 !.id = req[r].id, !.first_name = req[r].first_name,
                 !.last_name = req[r].last_name]

(* The requests after a step of the one in slot r: an answer stays until   *)
(* the next step of any request.                                           *)
Put(r, request) ==
    [s \in Slots |-> IF s = r THEN request
                     ELSE IF req[s].pc = "done" THEN Idle ELSE req[s]]

(* A request that arrives in slot r. *)
Arrive(op) == [Idle EXCEPT !.op = op]

(* The database may fail a statement of request r (0: of the job): at most *)
(* MaxFaults statements over a run, and only while at most                 *)
(* MaxFaultyOverlap other requests are in flight.                          *)
Fault(r) ==
    /\ faults < MaxFaults
    /\ Cardinality({s \in Slots \ {r} : ~Free(s)}) <= MaxFaultyOverlap
    /\ faults' = faults + 1

NoFault == faults' = faults

JobIdle ==
    [pc |-> "idle", twoYearsAgo |-> 0,
     deletedCounts |-> [dependents |-> 0, visits |-> 0, profiles |-> 0],
     auditStatus |-> "OK", errorMessage |-> "", runs |-> 0,
     callbacks |-> <<>>]

---------------------------------------------------------------------------
Init ==
    /\ visitors = {}
    /\ visits = {}
    /\ dependents = {}
    /\ audit_logs = <<>>
    /\ identity = [visitors |-> 1, visits |-> 1, dependents |-> 1]
    /\ req = [s \in Slots |-> Idle]
    /\ job = JobIdle
    /\ now = 0
    /\ faults = 0
    /\ dbService \in DbServices

(* The server connects to a database that exists already (connectDb): its *)
(* tables may hold rows from before this process started. Visitor 1 has no *)
(* visit left and may be banned; visitor 2 has one closed visit with a     *)
(* dependent.                                                              *)
InitStored ==
    /\ \E banned \in BOOLEAN :
         visitors = {[VisitorRow(1, "Jane", "Doe") EXCEPT !.is_banned = banned],
                     VisitorRow(2, "John", "Doe")}
    /\ visits = {VisitRow(1, 2, 0, 0, "A1")}
    /\ dependents = {DependentRow(1, 1, "Kid")}
    /\ audit_logs = <<>>
    /\ identity = [visitors |-> 3, visits |-> 2, dependents |-> 2]
    /\ req = [s \in Slots |-> Idle]
    /\ job = JobIdle
    /\ now = 0
    /\ faults = 0
    /\ dbService \in DbServices

(* A database in which one visitor is registered, with one closed visit    *)
(* and its dependent.                                                      *)
InitOneStored ==
    /\ visitors = {VisitorRow(1, "John", "Doe")}
    /\ visits = {VisitRow(1, 1, 0, 0, "A1")}
    /\ dependents = {DependentRow(1, 1, "Kid")}
    /\ audit_logs = <<>>
    /\ identity = [visitors |-> 2, visits |-> 2, dependents |-> 2]
    /\ req = [s \in Slots |-> Idle]
    /\ job = JobIdle
    /\ now = 0
    /\ faults = 0
    /\ dbService \in DbServices

(* The clock advances. *)
Tick ==
    /\ now < MaxTime
    /\ now' = now + 1
    /\ UNCHANGED <<dbVars, req, job, faults, dbService>>

---------------------------------------------------------------------------
(* POST /register-visitor *)

DeclaredDependents ==
    {[ok |-> FALSE, list |-> <<>>]} \cup
    {[ok |-> TRUE, list |-> [i \in 1..n |-> "Kid"]] : n \in 0..MaxDeclared}

RollbackErrorMasks(code, rollbackFails) == IF rollbackFails THEN 0 ELSE code

(* The status a catch block answers with after its rollback: an error of   *)
(* the rollback is caught and logged (rollbackErr), the answer stays.      *)
AfterRollback(code, rollbackFails) == code

(* upload.single("photo"): multer stores the photo of a multipart request  *)
(* under uploads/ before the handler runs (req.file).                      *)
RegisterUpload(r) ==
    /\ FreeSlot(r)
    /\ req' = Put(r, [Arrive("Register") EXCEPT !.pc = "reg_upload",
                                                !.file = "staged"])
    /\ UNCHANGED <<dbVars, job, now, faults, dbService>>

(* The handler is entered with req.file set. *)
Uploaded(r) == req[r].op = "Register" /\ req[r].pc = "reg_upload"

(* fs.unlinkSync(req.file.path) under `if (req.file && req.file.path)` *)
unlinkSync(file) == IF file = "staged" THEN "deleted" ELSE file

(* 1. the duplicate pre-check; 2. dbService.getPool(), new Transaction.    *)
(* The 409 is returned from inside the try; every 500 comes from the catch *)
(* block, which cleans up the uploaded file.                               *)
RegisterCheck(r) ==
    /\ FreeSlot(r) \/ Uploaded(r)
    /\ \E fn \in FirstNames, ln \in LastNames, u \in Units,
          d \in DeclaredDependents :
         LET q == [Arrive("Register") EXCEPT !.first_name = fn, !.last_name = ln,
                     !.file = IF Uploaded(r) THEN req[r].file ELSE "none"]
             answer(code) ==
                 [q EXCEPT !.pc = "done", !.status = code,
                           !.file = IF code = 500 THEN unlinkSync(q.file)
                                    ELSE q.file]
         IN  \/ /\ Fault(r)
                /\ req' = Put(r, answer(500))
             \/ /\ NoFault
                /\ LET existingVisitor ==
                         executeQuery(MssqlResult(TRUE,
                             {v \in visitors : v.first_name = fn
                                               /\ v.last_name = ln}, 0))
                   IN  req' = Put(r, IF ThrowsOnIndex(existingVisitor) THEN answer(500)
                         ELSE IF Cardinality(existingVisitor.rows) > 0
                         THEN answer(409)
                         ELSE IF ~dbService.getPool THEN answer(500)
                         ELSE [q EXCEPT !.pc = "reg_tx", !.unit = u,
                                        !.additional_dependents = d])
    /\ UNCHANGED <<dbVars, job, now, dbService>>

RegisterVisitorOnPool == TRUE

(* Whether the visitor INSERT commits on its own: it does not, its Request *)
(* is bound to the transaction (new sql.Request(transaction)).             *)
RegisterVisitorAutocommit == FALSE

(* 2. transaction.begin(); 3. INSERT INTO visitors; 4. INSERT INTO visits  *)
(* (entry_time = new Date()); 5. JSON.parse and one INSERT INTO dependents *)
(* per dependent; 6. transaction.commit() and 201; 7. on any throw,        *)
(* transaction.rollback(), whose own failure is only logged, and 500.      *)
(* Statement f is the one the database fails: 0 begin, 1 the visitor       *)
(* insert, 2 the visit insert, 2 + k the k-th dependent insert, then the   *)
(* commit; one more for no failure.                                        *)
RegisterTransaction(r) ==
    /\ req[r].op = "Register" /\ req[r].pc = "reg_tx"
    /\ LET d == req[r].additional_dependents
           n == Len(d.list)
           commit == n + 3
           uniqueOk == IX_visitors_FullName(visitors, req[r].first_name,
                                            req[r].last_name)
           last == IF ~uniqueOk THEN 1 ELSE IF ~d.ok THEN 2 ELSE commit
       IN
       /\ identity.visitors <= MaxVisitorId
       /\ identity.visits <= MaxVisitId
       /\ identity.dependents + n <= MaxDependentId + 1
       /\ \E f \in (0..last) \cup {commit + 1}, rollbackFails \in BOOLEAN :
            LET visitorDone == f > 1 /\ uniqueOk
                visitDone == visitorDone /\ f > 2
                            /\ FK_Visit_Visitor({[id |-> identity.visitors]},
                                                identity.visitors)
                depsDone == IF visitDone /\ d.ok THEN Min(n, f - 3) ELSE 0
                committed == f = commit + 1 /\ uniqueOk /\ d.ok
                visitor == VisitorRow(identity.visitors, req[r].first_name,
                                      req[r].last_name)
                visit == VisitRow(identity.visits, visitor.id, now, NULL,
                                  req[r].unit)
                deps == {DependentRow(identity.dependents + k - 1, visit.id,
                                      d.list[k]) : k \in 1..depsDone}
            IN  /\ IF f <= commit THEN Fault(r) ELSE NoFault
                /\ committed => ~rollbackFails
                /\ identity' =
                     [visitors |-> identity.visitors + (IF f > 1 THEN 1 ELSE 0),
                      visits |-> identity.visits + (IF visitDone THEN 1 ELSE 0),
                      dependents |-> identity.dependents + depsDone]
                /\ visitors' = IF committed
                                  \/ (RegisterVisitorAutocommit /\ visitorDone)
                               THEN visitors \cup {visitor} ELSE visitors
                /\ visits' = IF committed THEN visits \cup {visit} ELSE visits
                /\ dependents' = IF committed THEN dependents \cup deps
                                 ELSE dependents
                /\ req' = Put(r, IF committed
                             THEN [Respond(r, 201) EXCEPT !.id = visitor.id,
                                     !.file = req[r].file]
                             ELSE [Respond(r, AfterRollback(500, rollbackFails))
                                     EXCEPT
                                     !.file = unlinkSync(req[r].file),
                                     !.rollbackErr = rollbackFails])
    /\ UNCHANGED <<audit_logs, job, now, dbService>>

---------------------------------------------------------------------------
(* POST /login *)

(* The ids a client may send: 0 stands for a missing id. *)
Ids == 0..MaxVisitorId

(* entry_time = new Date() at the top of the handler; 400 without an id.   *)
SignInStart(r) ==
    /\ FreeSlot(r)
    /\ \E id \in Ids :
         LET q == [Arrive("SignIn") EXCEPT !.id = id]
         IN  req' = Put(r, IF id = 0 THEN [q EXCEPT !.pc = "done", !.status = 400]
                ELSE [q EXCEPT !.pc = "in_find", !.t = now])
    /\ UNCHANGED <<dbVars, job, now, faults, dbService>>

VisitsOfAnyVisitor(id) == visits

(* FROM visits AS T2 WHERE T2.visitor_id = v.id *)
VisitsOf(id) == {v \in visits : v.visitor_id = id}

NeverBanned(visitorRow) == FALSE

(* if (visitorRow.is_banned === true): mssql hands a BIT column over as a  *)
(* boolean.                                                                *)
IsBanned(visitorRow) == visitorRow.is_banned = TRUE

(* 1. the visitor's ban status and the details of their last visit; 404    *)
(* for no row, a TypeError (500, no transaction yet) when visitorResult[0] *)
(* is undefined, 403 for a banned visitor, 404 for one without a visit     *)
SignInFind(r) ==
    /\ req[r].op = "SignIn" /\ req[r].pc = "in_find"
    /\ \/ /\ Fault(r)
          /\ req' = Put(r, Respond(r, 500))
       \/ /\ NoFault
          /\ LET visitorResult ==
                   executeQuery(MssqlResult(TRUE,
                       {v \in visitors : v.id = req[r].id}, 0))
                 theirVisits == VisitsOf(req[r].id)
             IN  IF IsFalsy(visitorResult) \/ LengthIsZero(visitorResult)
                 THEN req' = Put(r, Respond(r, 404))
                 ELSE IF visitorResult.rows = {}
                 THEN req' = Put(r, Respond(r, 500))
                 ELSE IF \E v \in visitorResult.rows : IsBanned(v)
                 THEN req' = Put(r, Respond(r, 403))
                 ELSE IF theirVisits = {}
                 THEN req' = Put(r, Respond(r, 404))
                 ELSE \E last \in Top1ByEntryDesc(theirVisits) :
                        req' = Put(r, [req[r] EXCEPT !.pc = "in_deps",
                                           !.unit = last.unit,
                                           !.lastVisitId = last.id])
    /\ UNCHANGED <<dbVars, job, now, dbService>>

(* 2. the dependents of that visit; then dbService.getPool(), which throws *)
(* before any transaction exists when the service has no such member.      *)
SignInDependents(r) ==
    /\ req[r].op = "SignIn" /\ req[r].pc = "in_deps"
    /\ \/ /\ Fault(r)
          /\ req' = Put(r, Respond(r, 500))
       \/ /\ NoFault
          /\ LET dependentsData ==
                   executeQuery(MssqlResult(TRUE,
                       {d \in dependents : d.visit_id = req[r].lastVisitId}, 0))
             IN  req' = Put(r, IF ~dbService.getPool THEN Respond(r, 500)
                   ELSE [req[r] EXCEPT !.pc = "in_tx",
                             !.dependentsData = NamesById(dependentsData.rows)])
    /\ UNCHANGED <<dbVars, job, now, dbService>>

SignInVisitOnPool == TRUE

(* Whether the visit INSERT of SignIn commits on its own: it does not, its *)
(* Request is bound to the transaction (new Request(transaction)).         *)
SignInVisitAutocommit == FALSE

(* 3. transaction.begin(); 4. INSERT INTO visits ... OUTPUT INSERTED.id;   *)
(* 5. one INSERT INTO dependents per dependent found; 6. commit and 200;   *)
(* on any throw, rollback and 500. Statement f is the one the database     *)
(* fails: 0 begin, 1 the visit insert, 1 + k the k-th dependent insert,    *)
(* then the commit; one more for no failure. The visit insert also fails   *)
(* when FK_Visit_Visitor finds no visitor. The answer keeps newVisitId,    *)
(* the id the visit insert returned.                                       *)
SignInTransaction(r) ==
    /\ req[r].op = "SignIn" /\ req[r].pc = "in_tx"
    /\ LET names == req[r].dependentsData
           n == Len(names)
           commit == n + 2
           fkOk == FK_Visit_Visitor(visitors, req[r].id)
           last == IF ~fkOk THEN 1 ELSE commit
       IN
       /\ identity.visits <= MaxVisitId
       /\ identity.dependents + n <= MaxDependentId + 1
       /\ \E f \in (0..last) \cup {commit + 1}, rollbackFails \in BOOLEAN :
            LET visitDone == f > 1 /\ fkOk
                depsDone == IF visitDone THEN Min(n, f - 2) ELSE 0
                committed == f = commit + 1 /\ fkOk
                visit == VisitRow(identity.visits, req[r].id, req[r].t, NULL,
                                  req[r].unit)
                deps == {DependentRow(identity.dependents + k - 1, visit.id,
                                      names[k]) : k \in 1..depsDone}
            IN  /\ IF f <= commit THEN Fault(r) ELSE NoFault
                /\ committed => ~rollbackFails
                /\ identity' =
                     [identity EXCEPT
                        !.visits = @ + (IF f > 1 THEN 1 ELSE 0),
                        !.dependents = @ + depsDone]
                /\ visits' = IF committed \/ (SignInVisitAutocommit /\ visitDone)
                             THEN visits \cup {visit} ELSE visits
                /\ dependents' = IF committed THEN dependents \cup deps
                                 ELSE dependents
                /\ req' = Put(r, [Respond(r, IF committed THEN 200
                                      ELSE AfterRollback(500, rollbackFails))
                                    EXCEPT !.visitId = IF visitDone
                                                       THEN visit.id ELSE 0,
                                           !.rollbackErr = rollbackFails])
    /\ UNCHANGED <<visitors, audit_logs, job, now, dbService>>

---------------------------------------------------------------------------
(* POST /exit-visitor/:id *)

(* exit_time = new Date() at the top of the handler *)
SignOutStart(r) ==
    /\ FreeSlot(r)
    /\ \E id \in Ids \ {0} :
         req' = Put(r, [Arrive("SignOut") EXCEPT !.pc = "out_find", !.id = id,
                        !.t = now, !.prev = PrevStatus(r, "SignOut", id)])
    /\ UNCHANGED <<dbVars, job, now, faults, dbService>>

(* The rows of findSql before TOP 1: the open visits of the visitor,       *)
(* joined to the visitor.                                                  *)
ActiveVisits(id) ==
    {v \in visits : /\ v.visitor_id = id
                    /\ v.exit_time = NULL
                    /\ \E p \in visitors : p.id = v.visitor_id}

(* 1. find the active visit; 2. 404 when there is none                     *)
SignOutFind(r) ==
    /\ req[r].op = "SignOut" /\ req[r].pc = "out_find"
    /\ \/ /\ Fault(r)
          /\ req' = Put(r, Respond(r, 500))
       \/ /\ NoFault
          /\ LET candidates == Top1ByEntryDesc(ActiveVisits(req[r].id))
             IN  \E top1 \in IF candidates = {} THEN {{}}
                              ELSE {{v} : v \in candidates} :
                   LET rows == executeQuery(MssqlResult(TRUE, top1, 0))
                   IN  IF ThrowsOnIndex(rows)
                       THEN req' = Put(r, Respond(r, 500))
                       ELSE IF rows.rows = {}
                       THEN req' = Put(r, Respond(r, 404))
                       ELSE \E activeVisit \in rows.rows :
                              req' = Put(r, [req[r] EXCEPT !.pc = "out_update",
                                                 !.visitId = activeVisit.id])
    /\ UNCHANGED <<dbVars, job, now, dbService>>

CloseVisitAndMove(v, t) == [v EXCEPT !.exit_time = t, !.entry_time = t]

(* SET exit_time = @exitTime *)
CloseVisit(v, t) == [v EXCEPT !.exit_time = t]

(* 3. UPDATE visits SET exit_time = @exitTime WHERE id = @visitId; 4. 200  *)
SignOutUpdate(r) ==
    /\ req[r].op = "SignOut" /\ req[r].pc = "out_update"
    /\ \/ /\ Fault(r)
          /\ UNCHANGED visits
          /\ req' = Put(r, Respond(r, 500))
       \/ /\ NoFault
          /\ visits' = {IF v.id = req[r].visitId
                        THEN CloseVisit(v, req[r].t) ELSE v
                        : v \in visits}
          /\ req' = Put(r, Respond(r, 200))
    /\ UNCHANGED <<visitors, dependents, audit_logs, identity, job, now,
                   dbService>>

---------------------------------------------------------------------------
(* POST /ban-visitor/:id and POST /unban-visitor/:id *)

(* if (result.rowsAffected && result.rowsAffected[0] === 0) 404, else 200; *)
(* 500 from the catch when reading the property throws.                    *)
RowsAffectedStatus(result) ==
    IF ThrowsOnRowsAffected(result) THEN 500
    ELSE IF result.kind = "result" /\ result.rowsAffected = 0 THEN 404
    ELSE 200

SetBannedEveryVisitor(id, flag) ==
    {[v EXCEPT !.is_banned = flag] : v \in visitors}

(* UPDATE visitors SET is_banned = @flag WHERE id = @visitorId *)
SetBanned(id, flag) ==
    {IF v.id = id THEN [v EXCEPT !.is_banned = flag] ELSE v : v \in visitors}

(* process.env.MASTER_PASSWORD, and a password that differs from it (or    *)
(* none)                                                                   *)
Passwords == {"master", "wrong"}

(* The handler reads req.params.id only: whatever password the body        *)
(* carries is ignored.                                                     *)
BanVisitor(r) ==
    /\ FreeSlot(r)
    /\ \E id \in Ids, password \in Passwords :
         LET q == [Arrive("Ban") EXCEPT !.pc = "done", !.id = id,
                                        !.password = password]
         IN  IF id = 0
             THEN /\ req' = Put(r, [q EXCEPT !.status = 400])
                  /\ UNCHANGED <<visitors, faults>>
             ELSE \/ /\ Fault(r)
                     /\ req' = Put(r, [q EXCEPT !.status = 500])
                     /\ UNCHANGED visitors
                  \/ /\ NoFault
                     /\ visitors' = SetBanned(id, TRUE)
                     /\ LET result ==
                              executeQuery(MssqlResult(FALSE, {},
                                  Cardinality({v \in visitors : v.id = id})))
                        IN  req' = Put(r, [q EXCEPT !.status = RowsAffectedStatus(result)])
    /\ UNCHANGED <<visits, dependents, audit_logs, identity, job, now,
                   dbService>>

UnbanVisitor(r) ==
    /\ FreeSlot(r)
    /\ \E id \in Ids, password \in Passwords :
         LET q == [Arrive("Unban") EXCEPT !.pc = "done", !.id = id,
                                          !.password = password]
         IN  IF password # "master" \/ id = 0
             THEN /\ req' = Put(r, [q EXCEPT !.status = IF password # "master" THEN 403
                                            ELSE 400])
                  /\ UNCHANGED <<visitors, faults>>
             ELSE \/ /\ Fault(r)
                     /\ req' = Put(r, [q EXCEPT !.status = 500])
                     /\ UNCHANGED visitors
                  \/ /\ NoFault
                     /\ visitors' = SetBanned(id, FALSE)
                     /\ LET result ==
                              executeQuery(MssqlResult(FALSE, {},
                                  Cardinality({v \in visitors : v.id = id})))
                        IN  req' = Put(r, [q EXCEPT !.status = RowsAffectedStatus(result)])
    /\ UNCHANGED <<visits, dependents, audit_logs, identity, job, now,
                   dbService>>

---------------------------------------------------------------------------
(* POST /update-visitor-details *)

(* JSON.parse(additional_dependents), with the fallback for a string that *)
(* is not JSON: one dependent named by that string.                        *)
DependentsArray(d) == IF d.ok THEN d.list ELSE <<"not JSON">>

(* 400 without an id; 1. executeQuery("BEGIN TRAN;")                       *)
UpdateBegin(r) ==
    /\ FreeSlot(r)
    /\ \E id \in Ids, u \in Units, d \in DeclaredDependents :
         LET q == [Arrive("UpdateAndSignIn") EXCEPT !.id = id]
         IN  IF id = 0
             THEN /\ req' = Put(r, [q EXCEPT !.pc = "done", !.status = 400])
                  /\ NoFault
             ELSE LET q2 == [q EXCEPT !.unit = u,
                               !.dependentsData = DependentsArray(d)]
                  IN  \/ /\ Fault(r)
                         /\ req' = Put(r, [q2 EXCEPT !.pc = "up_rollback"])
                      \/ /\ NoFault
                         /\ req' = Put(r, [q2 EXCEPT !.pc = "up_verify"])
    /\ UNCHANGED <<dbVars, job, now, dbService>>

(* 2. SELECT id FROM visitors WHERE id = @visitorId, and                   *)
(* visitorCheck.recordset.length; 404 after a ROLLBACK TRAN when it is 0;  *)
(* else entry_time = new Date() for step 3.                                *)
UpdateVerify(r) ==
    /\ req[r].op = "UpdateAndSignIn" /\ req[r].pc = "up_verify"
    /\ \/ /\ Fault(r)
          /\ req' = Put(r, [req[r] EXCEPT !.pc = "up_rollback"])
       \/ /\ NoFault
          /\ LET visitorCheck ==
                   executeQuery(MssqlResult(TRUE,
                       {v \in visitors : v.id = req[r].id}, 0))
             IN  req' = Put(r, IF ThrowsOnRecordset(visitorCheck)
                   THEN [req[r] EXCEPT !.pc = "up_rollback"]
                   ELSE IF visitorCheck.recordset = {}
                   THEN [req[r] EXCEPT !.pc = "up_rollback", !.status = 404]
                   ELSE [req[r] EXCEPT !.pc = "up_visit", !.t = now])
    /\ UNCHANGED <<dbVars, job, now, dbService>>

(* 3. INSERT INTO visits ...; SELECT SCOPE_IDENTITY(), through             *)
(* executeQuery: a request of the pool, which commits on its own.          *)
UpdateInsertVisit(r) ==
    /\ req[r].op = "UpdateAndSignIn" /\ req[r].pc = "up_visit"
    /\ identity.visits <= MaxVisitId
    /\ \/ /\ Fault(r)
          /\ req' = Put(r, [req[r] EXCEPT !.pc = "up_rollback"])
          /\ UNCHANGED <<visits, identity>>
       \/ /\ NoFault
          /\ identity' = [identity EXCEPT !.visits = @ + 1]
          /\ IF ~FK_Visit_Visitor(visitors, req[r].id)
             THEN /\ req' = Put(r, [req[r] EXCEPT !.pc = "up_rollback"])
                  /\ UNCHANGED visits
             ELSE LET visitResult ==
                        executeQuery(MssqlResult(TRUE,
                            {[newVisitId |-> identity.visits]}, 1))
                  IN  /\ visits' = visits \cup
                           {VisitRow(identity.visits, req[r].id, req[r].t,
                                     NULL, req[r].unit)}
                      /\ req' = Put(r, IF ThrowsOnRecordset(visitResult)
                           THEN [req[r] EXCEPT !.pc = "up_rollback",
                                               !.visitId = identity.visits]
                           ELSE [req[r] EXCEPT
                                   !.pc = IF Len(req[r].dependentsData) > 0
                                          THEN "up_deps" ELSE "up_commit",
                                   !.visitId = identity.visits])
    /\ UNCHANGED <<visitors, dependents, audit_logs, job, now, dbService>>

(* 4. one INSERT INTO dependents per dependent, awaited together           *)
(* (Promise.all); when the database fails one, the first k were inserted.  *)
UpdateInsertDependents(r) ==
    /\ req[r].op = "UpdateAndSignIn" /\ req[r].pc = "up_deps"
    /\ LET names == req[r].dependentsData
           n == Len(names)
           fkOk == FK_Dependent_Visit(visits, req[r].visitId)
           deps(m) == {DependentRow(identity.dependents + k - 1,
                                    req[r].visitId, names[k]) : k \in 1..m}
       IN  /\ identity.dependents + n <= MaxDependentId + 1
           /\ \/ /\ Fault(r)
                 /\ \E k \in 0..(n - 1) :
                      /\ dependents' = dependents
                           \cup (IF fkOk THEN deps(k) ELSE {})
                      /\ identity' = [identity EXCEPT !.dependents = @ + k]
                 /\ req' = Put(r, [req[r] EXCEPT !.pc = "up_rollback"])
              \/ /\ NoFault
                 /\ dependents' = dependents \cup (IF fkOk THEN deps(n) ELSE {})
                 /\ identity' = [identity EXCEPT !.dependents = @ + n]
                 /\ req' = Put(r, [req[r] EXCEPT !.pc =
                              IF fkOk THEN "up_commit" ELSE "up_rollback"])
    /\ UNCHANGED <<visitors, visits, audit_logs, job, now, dbService>>

(* 5. executeQuery("COMMIT TRAN;") and 201                                 *)
UpdateCommit(r) ==
    /\ req[r].op = "UpdateAndSignIn" /\ req[r].pc = "up_commit"
    /\ \/ /\ Fault(r)
          /\ req' = Put(r, [req[r] EXCEPT !.pc = "up_rollback"])
       \/ /\ NoFault
          /\ req' = Put(r, Respond(r, 201))
    /\ UNCHANGED <<dbVars, job, now, dbService>>

(* 6. executeQuery("ROLLBACK TRAN;"), whose failure is only logged, then   *)
(* the answer. The statement runs on whichever connection the pool hands   *)
(* out: it undoes the rows of steps 3 and 4 when these ran inside the      *)
(* transaction of step 1 on that same connection, and nothing otherwise.   *)
(* The ROLLBACK of the 404 branch is inside the try: when it fails, the    *)
(* catch answers 500.                                                      *)
UpdateRollback(r) ==
    /\ req[r].op = "UpdateAndSignIn" /\ req[r].pc = "up_rollback"
    /\ Fault(r) \/ NoFault
    /\ \E undone \in BOOLEAN :
         /\ undone => faults' = faults
         /\ visits' = IF undone
                      THEN {v \in visits : v.id # req[r].visitId}
                      ELSE visits
         /\ dependents' = IF undone
                          THEN {d \in dependents : d.visit_id # req[r].visitId}
                          ELSE dependents
    /\ req' = Put(r, [Respond(r, IF req[r].status = 404 /\ faults' = faults
                                 THEN 404
                                 ELSE AfterRollback(500, faults' # faults))
                        EXCEPT !.rollbackErr = faults' # faults])
    /\ UNCHANGED <<visitors, audit_logs, identity, job, now, dbService>>

---------------------------------------------------------------------------
(* POST /record-missed-visit *)

(* What a client may send as pastEntryTime besides a time: nothing (NULL), *)
(* the empty string, or a string such as 'not-a-real-date'.                *)
EmptyString == -2
NotADate == -3
PastEntryTimes == Times \cup {NULL, EmptyString, NotADate}

(* `!pastEntryTime` *)
IsMissing(pastEntryTime) == pastEntryTime \in {NULL, EmptyString}

(* isNaN(new Date(pastEntryTime).getTime()) *)
IsInvalidDate(pastEntryTime) == pastEntryTime \notin Times

EntryAfterExit(entry, exit) == entry > exit

(* entryDate.getTime() >= exitDate.getTime() *)
EntryNotBeforeExit(entry, exit) == entry >= exit

MissingMessage == "Missing visitor ID or required entry time."
InvalidEntryTimeMessage ==
    "Invalid entry time. It must be a valid date/time and occur before the current exit time."

(* 1. and 2.: validation, with the exit time taken from Date.now()         *)
MissedStart(r) ==
    /\ FreeSlot(r)
    /\ \E id \in Ids, pastEntryTime \in PastEntryTimes :
         LET q == [Arrive("RecordMissedVisit") EXCEPT !.id = id,
                     !.pastEntryTime = pastEntryTime]
         IN  req' = Put(r,
                IF id = 0 \/ IsMissing(pastEntryTime)
                THEN [q EXCEPT !.pc = "done", !.status = 400,
                               !.message = MissingMessage]
                ELSE IF \/ IsInvalidDate(pastEntryTime)
                        \/ EntryNotBeforeExit(pastEntryTime, now)
                THEN [q EXCEPT !.pc = "done", !.status = 400,
                               !.message = InvalidEntryTimeMessage]
                ELSE [q EXCEPT !.pc = "mv_select", !.t = now])
    /\ UNCHANGED <<dbVars, job, now, faults, dbService>>

(* 3. the most recent visit of the visitor, result.recordset[0], and the   *)
(* unit of that visit or "--"                                              *)
MissedSelect(r) ==
    /\ req[r].op = "RecordMissedVisit" /\ req[r].pc = "mv_select"
    /\ \/ /\ Fault(r)
          /\ req' = Put(r, Respond(r, 500))
       \/ /\ NoFault
          /\ LET candidates ==
                   Top1ByEntryDesc({v \in visits : v.visitor_id = req[r].id})
             IN  \E top1 \in IF candidates = {} THEN {{}}
                              ELSE {{v} : v \in candidates} :
                   LET result == executeQuery(MssqlResult(TRUE, top1, 0))
                   IN  req' = Put(r, IF ThrowsOnRecordset(result) THEN Respond(r, 500)
                         ELSE [req[r] EXCEPT !.pc = "mv_insert",
                                 !.unit = IF result.recordset = {} THEN "--"
                                          ELSE (CHOOSE v \in result.recordset :
                                                  TRUE).unit])
    /\ UNCHANGED <<dbVars, job, now, dbService>>

(* 4. INSERT INTO visits with entry_time = pastEntryTime and exit_time =   *)
(* the time taken in step 2; 200                                           *)
MissedInsert(r) ==
    /\ req[r].op = "RecordMissedVisit" /\ req[r].pc = "mv_insert"
    /\ identity.visits <= MaxVisitId
    /\ \/ /\ Fault(r)
          /\ req' = Put(r, Respond(r, 500))
          /\ UNCHANGED <<visits, identity>>
       \/ /\ NoFault
          /\ identity' = [identity EXCEPT !.visits = @ + 1]
          /\ IF FK_Visit_Visitor(visitors, req[r].id)
             THEN /\ visits' = visits \cup
                       {VisitRow(identity.visits, req[r].id,
                                 req[r].pastEntryTime, req[r].t, req[r].unit)}
                  /\ req' = Put(r, Respond(r, 200))
             ELSE /\ UNCHANGED visits
                  /\ req' = Put(r, Respond(r, 500))
    /\ UNCHANGED <<visitors, dependents, audit_logs, job, now, dbService>>

---------------------------------------------------------------------------
(* runDataComplianceCleanup(dbService, callback) *)

(* deletedCounts, twoYearsAgo, auditStatus, errorMessage at the start      *)
JobStart ==
    /\ job.pc = "idle"
    /\ job.runs < MaxJobRuns
    /\ job' = [JobIdle EXCEPT !.pc = "step1",
                              !.twoYearsAgo = now - RetentionWindow,
                              !.runs = job.runs]
    /\ UNCHANGED <<dbVars, req, now, faults, dbService>>

(* The next server start calls the job again: a run that follows a run. *)
JobStartAgain ==
    /\ job.pc = "idle"
    /\ job.runs \in 1..MaxJobRuns
    /\ job' = [JobIdle EXCEPT !.pc = "step1",
                              !.twoYearsAgo = now - RetentionWindow,
                              !.runs = job.runs]
    /\ UNCHANGED <<dbVars, req, now, faults, dbService>>

ExpiredVisitsInclusive(cutoff) == {v \in visits : v.entry_time <= cutoff}

(* SELECT id FROM visits WHERE entry_time < @twoYearsAgo *)
ExpiredVisits(cutoff) == {v \in visits : v.entry_time < cutoff}

InactiveProfileAnyStatus(p) == ~\E v \in visits : v.visitor_id = p.id

(* WHERE id NOT IN (SELECT visitor_id FROM visits) AND is_banned = 0 *)
InactiveProfile(p) ==
    /\ ~\E v \in visits : v.visitor_id = p.id
    /\ p.is_banned = FALSE

JobDeletesOneRow(step, cutoff) ==
    LET all == CASE step = "step1" ->
                      {d \in dependents :
                         \E v \in ExpiredVisits(cutoff) : v.id = d.visit_id}
                 [] step = "step2" -> ExpiredVisits(cutoff)
                 [] step = "step3" -> {p \in visitors : InactiveProfile(p)}
    IN  IF all = {} THEN {} ELSE {CHOOSE x \in all : TRUE}

(* The rows each DELETE of the job removes. *)
JobDeletes(step, cutoff) ==
    CASE step = "step1" ->
           {d \in dependents :
              \E v \in ExpiredVisits(cutoff) : v.id = d.visit_id}
      [] step = "step2" -> ExpiredVisits(cutoff)
      [] step = "step3" -> {p \in visitors : InactiveProfile(p)}

JobCatchKeepsStatus(message) ==
    [job EXCEPT !.pc = "audit", !.errorMessage = message]

JobCatchNoMessage(message) ==
    [job EXCEPT !.pc = "audit", !.auditStatus = "ERROR"]

(* The catch block *)
JobCatch(message) ==
    [job EXCEPT !.pc = "audit", !.auditStatus = "ERROR",
                !.errorMessage = message]

NoRowsAffected(result) == 0

(* result.rowsAffected ? result.rowsAffected[0] : 0 *)
RowsAffected(result) ==
    IF result.kind = "result" THEN result.rowsAffected ELSE 0

(* Steps 1 to 3: one DELETE and the read of result.rowsAffected after it.  *)
(* The DELETE of visits is rejected by FK_Dependent_Visit while a          *)
(* dependent still names one of them.                                      *)
JobDelete ==
    /\ job.pc \in {"step1", "step2", "step3"}
    /\ LET gone == JobDeletes(job.pc, job.twoYearsAgo)
           rejected == /\ job.pc = "step2"
                       /\ \E d \in dependents :
                            FK_Dependent_Visit(gone, d.visit_id)
           result == executeQuery(MssqlResult(FALSE, {}, Cardinality(gone)))
           count == RowsAffected(result)
       IN  \/ /\ Fault(0)
              /\ job' = JobCatch("database")
              /\ UNCHANGED <<visitors, visits, dependents>>
           \/ /\ NoFault
              /\ rejected
              /\ job' = JobCatch("constraint")
              /\ UNCHANGED <<visitors, visits, dependents>>
           \/ /\ NoFault
              /\ ~rejected
              /\ dependents' = IF job.pc = "step1" THEN dependents \ gone
                               ELSE dependents
              /\ visits' = IF job.pc = "step2" THEN visits \ gone ELSE visits
              /\ visitors' = IF job.pc = "step3" THEN visitors \ gone
                             ELSE visitors
              /\ job' =
                   IF ThrowsOnRowsAffected(result) THEN JobCatch("TypeError")
                   ELSE CASE job.pc = "step1" ->
                               [job EXCEPT !.pc = "step2",
                                           !.deletedCounts.dependents = count]
                          [] job.pc = "step2" ->
                               [job EXCEPT !.pc = "step3",
                                           !.deletedCounts.visits = count]
                          [] job.pc = "step3" ->
                               [job EXCEPT !.pc = "audit",
                                           !.deletedCounts.profiles = count]
    /\ UNCHANGED <<audit_logs, identity, req, now, dbService>>

(* 4. the audit row, whose failure is only logged; then the callback,      *)
(* recorded in callbacks with its argument until the next run starts       *)
JobAudit ==
    /\ job.pc = "audit"
    /\ \/ /\ Fault(0)
          /\ UNCHANGED audit_logs
       \/ /\ NoFault
          /\ audit_logs' = Append(audit_logs,
               [event_name |-> IF job.auditStatus = "OK"
                               THEN "Compliance Cleanup Succeeded"
                               ELSE "Compliance Cleanup Failed",
                timestamp |-> now,
                status |-> job.auditStatus,
                profiles_deleted |-> job.deletedCounts.profiles,
                visits_deleted |-> job.deletedCounts.visits,
                dependents_deleted |-> job.deletedCounts.dependents])
    /\ job' = [JobIdle EXCEPT !.runs = job.runs + 1,
                              !.callbacks = <<job.errorMessage>>]
    /\ UNCHANGED <<visitors, visits, dependents, identity, req, now,
                   dbService>>

---------------------------------------------------------------------------
(* GET /visitor-search and GET /history *)

(* What a client may send as `name` or `search`: nothing, or a string of   *)
(* at most MaxQueryLen characters, among them the space and the tab.       *)
MaxQueryLen == 2
QueryChars == {" ", "\t", "J", "o"}
Strings == UNION {[1..n -> QueryChars] : n \in 0..MaxQueryLen}
Params == {NoParam} \cup {[present |-> TRUE, chars |-> c] : c \in Strings}

(* The characters of the names the model stores. *)
CharsOf(value) ==
    CASE value = "Jane" -> <<"J", "a", "n", "e">>
      [] value = "John" -> <<"J", "o", "h", "n">>
      [] value = "Doe" -> <<"D", "o", "e">>
      [] OTHER -> <<>>

(* `!x` for a query-string parameter: undefined or the empty string *)
IsFalsyParam(x) == ~x.present \/ x.chars = <<>>

(* searchTerm.split(" ").filter(t => t.length > 0), with `term` the term   *)
(* read so far: the space is the only separator.                           *)
SplitOnSpace(chars, term) ==
    LET RECURSIVE Go(_, _)
        Go(cs, t) ==
            IF cs = <<>> THEN (IF t = <<>> THEN <<>> ELSE <<t>>)
            ELSE IF Head(cs) = " "
            THEN (IF t = <<>> THEN <<>> ELSE <<t>>) \o Go(Tail(cs), <<>>)
            ELSE Go(Tail(cs), Append(t, Head(cs)))
    IN  Go(chars, term)

(* value LIKE '%term%' *)
Like(value, term) ==
    \E i \in 0..(Len(value) - Len(term)) :
       SubSeq(value, i + 1, i + Len(term)) = term

(* toLowerCase() and LOWER() *)
Lower(chars) ==
    [i \in 1..Len(chars) |->
       CASE chars[i] = "J" -> "j" [] chars[i] = "D" -> "d" [] OTHER -> chars[i]]

(* `x.map(...)` on what executeQuery returned: a TypeError unless x is an  *)
(* array.                                                                  *)
ThrowsOnMap(x) == x.kind # "array"

ParsesMalformedAsStored(stored, malformed) == stored

(* JSON.parse of the dependents column in a try whose catch only logs:     *)
(* the dependents stay [] when the string does not parse.                  *)
ParseDependents(stored, malformed) == IF malformed THEN {} ELSE stored

(* SELECT full_name, age FROM dependents AS T3 WHERE T3.visit_id = T2.id *)
DependentsOf(visitId) == {d \in dependents : d.visit_id = visitId}

SearchRequiredMessage == "Search term 'name' is required."
SearchEmptyMessage == "Search term is required and cannot be empty."

(* createSearchVisitorsRouter(dbService, sql): the parameter hides the     *)
(* mssql module the file requires. server.js creates the router with       *)
(* dbService alone, the router's test with a mock of the types; a search   *)
(* is served by a router of either kind.                                   *)
SearchSqlArgs == {"undefined", "mssql"}

(* An exception in an async handler outside its try block rejects the      *)
(* promise Express was handed: the request is left without an answer, or   *)
(* the framework's error handler answers 500, by the version of Express    *)
(* that is installed.                                                      *)
UnhandledRejection == {"no response", "error handler"}

(* The validation of GET /visitor-search and the forEach that builds the   *)
(* inputs, where `sql.NVarChar` throws a TypeError when sql is undefined.  *)
SearchStart(r) ==
    /\ FreeSlot(r)
    /\ \E name \in Params, sql \in SearchSqlArgs,
          rejection \in UnhandledRejection :
         LET q == [Arrive("SearchByName") EXCEPT !.name = name]
         IN  req' = Put(r,
                IF IsFalsyParam(name)
                THEN [q EXCEPT !.pc = "done", !.status = 400,
                               !.message = SearchRequiredMessage]
                ELSE IF Len(SplitOnSpace(name.chars, <<>>)) = 0
                THEN [q EXCEPT !.pc = "done", !.status = 400,
                               !.message = SearchEmptyMessage]
                ELSE IF sql = "undefined"
                THEN (IF rejection = "no response"
                      THEN [q EXCEPT !.pc = "no_response", !.threw = TRUE]
                      ELSE [q EXCEPT !.pc = "done", !.status = 500,
                                     !.threw = TRUE])
                ELSE [q EXCEPT !.pc = "search_query"])
    /\ UNCHANGED <<dbVars, job, now, faults, dbService>>

(* The rows of the search query: the visitors every term of which matches  *)
(* the first or the last name, each with its TOP 1 visit by entry_time     *)
(* DESC when it has one (OUTER APPLY); `latest` is the visit id the        *)
(* statement picked for each visitor, 0 for none.                          *)
SearchMatches(searchTerms) ==
    {v \in visitors :
       \A k \in 1..Len(searchTerms) :
          \/ Like(CharsOf(v.first_name), searchTerms[k])
          \/ Like(CharsOf(v.last_name), searchTerms[k])}

LatestChoices(matches) ==
    {latest \in [{v.id : v \in matches} -> 0..MaxVisitId] :
       \A id \in DOMAIN latest :
          IF VisitsOf(id) = {} THEN latest[id] = 0
          ELSE \E w \in Top1ByEntryDesc(VisitsOf(id)) : latest[id] = w.id}

(* The query of GET /visitor-search, the mapping of its rows and the       *)
(* answer; `malformed` are the rows whose dependents_json does not parse.  *)
(* The answer keeps `rows`, what executeQuery returned, beside the body.   *)
SearchQuery(r) ==
    /\ req[r].op = "SearchByName" /\ req[r].pc = "search_query"
    /\ \/ /\ Fault(r)
          /\ req' = Put(r, [Respond(r, 500) EXCEPT !.name = req[r].name])
       \/ /\ NoFault
          /\ LET matches == SearchMatches(SplitOnSpace(req[r].name.chars, <<>>))
             IN  \E latest \in LatestChoices(matches),
                    malformed \in SUBSET {v.id : v \in matches} :
                   LET found == {[id |-> v.id, first_name |-> v.first_name,
                                  last_name |-> v.last_name,
                                  is_banned |-> v.is_banned,
                                  visit_id |-> latest[v.id],
                                  malformed |-> v.id \in malformed]
                                 : v \in matches}
                       rows == executeQuery(MssqlResult(TRUE, found, 0))
                   IN  req' = Put(r,
                         IF ThrowsOnMap(rows)
                         THEN [Respond(r, 500) EXCEPT !.name = req[r].name]
                         ELSE [Respond(r, 200) EXCEPT !.name = req[r].name,
                                 !.rows = rows.rows, !.body =
                                   {[id |-> row.id,
                                     first_name |-> row.first_name,
                                     last_name |-> row.last_name,
                                     is_banned |-> row.is_banned,
                                     visit_id |-> row.visit_id,
                                     dependents |->
                                       ParseDependents(
                                         DependentsOf(row.visit_id),
                                         row.malformed)] : row \in rows.rows}])
    /\ UNCHANGED <<dbVars, job, now, dbService>>

(* The dates a client may send as start_date and end_date: a day, or       *)
(* nothing. A day has TicksPerDay instants of the clock.                   *)
TicksPerDay == 2
Days == 0..(MaxTime \div TicksPerDay)

(* T2.entry_time >= @startDate with the date string as sent: the start of  *)
(* that day.                                                               *)
StartDate(start_date) == start_date * TicksPerDay

EndDateAsSent(end_date) == end_date * TicksPerDay

(* `${end_date}T23:59:59.999Z`: the last instant of that day *)
EndOfDay(end_date) == end_date * TicksPerDay + (TicksPerDay - 1)

(* GET /history builds its WHERE clauses from the parameters that are      *)
(* set; it validates nothing.                                              *)
HistoryStart(r) ==
    /\ FreeSlot(r)
    /\ \E search \in Params, start_date \in Days \cup {NULL},
          end_date \in Days \cup {NULL} :
         req' = Put(r, [Arrive("History") EXCEPT !.pc = "history_query",
                          !.search = search, !.start_date = start_date,
                          !.end_date = end_date])
    /\ UNCHANGED <<dbVars, job, now, faults, dbService>>

(* FROM visitors AS T1 JOIN visits AS T2 ON T1.id = T2.visitor_id with the *)
(* WHERE clauses of the parameters that are set.                           *)
HistoryMatches(search, start_date, end_date) ==
    {w \in visits :
       \E v \in visitors :
          /\ v.id = w.visitor_id
          /\ IsFalsyParam(search)
             \/ Like(Lower(CharsOf(v.first_name)), Lower(search.chars))
             \/ Like(Lower(CharsOf(v.last_name)), Lower(search.chars))
          /\ start_date # NULL => w.entry_time >= StartDate(start_date)
          /\ end_date # NULL => w.entry_time <= EndOfDay(end_date)}

(* The query of GET /history, the mapping of its rows and the answer;      *)
(* `malformed` are the rows whose additional_dependents_json does not      *)
(* parse.                                                                  *)
HistoryQuery(r) ==
    /\ req[r].op = "History" /\ req[r].pc = "history_query"
    /\ LET keep(answer) == [answer EXCEPT !.search = req[r].search,
                              !.start_date = req[r].start_date,
                              !.end_date = req[r].end_date]
       IN
       \/ /\ Fault(r)
          /\ req' = Put(r, keep(Respond(r, 500)))
       \/ /\ NoFault
          /\ LET matches == HistoryMatches(req[r].search, req[r].start_date,
                                           req[r].end_date)
             IN  \E malformed \in SUBSET {w.id : w \in matches} :
                   LET found == {[visit_id |-> w.id,
                                  visitor_id |-> w.visitor_id,
                                  entry_time |-> w.entry_time,
                                  exit_time |-> w.exit_time,
                                  malformed |-> w.id \in malformed]
                                 : w \in matches}
                       rows == executeQuery(MssqlResult(TRUE, found, 0))
                   IN  req' = Put(r,
                         IF ThrowsOnMap(rows)
                         THEN keep(Respond(r, 500))
                         ELSE [keep(Respond(r, 200)) EXCEPT
                                 !.rows = rows.rows, !.body =
                                   {[visit_id |-> row.visit_id,
                                     visitor_id |-> row.visitor_id,
                                     entry_time |-> row.entry_time,
                                     exit_time |-> row.exit_time,
                                     dependents |->
                                       ParseDependents(
                                         DependentsOf(row.visit_id),
                                         row.malformed)] : row \in rows.rows}])
    /\ UNCHANGED <<dbVars, job, now, dbService>>

---------------------------------------------------------------------------
(* azureSqlService.logAudit *)

(* The service before connectDb has run: its pool is not set. *)
InitAudit ==
    /\ visitors = {}
    /\ visits = {}
    /\ dependents = {}
    /\ audit_logs = <<>>
    /\ identity = [visitors |-> 1, visits |-> 1, dependents |-> 1]
    /\ req = [s \in Slots |-> Idle]
    /\ job = JobIdle
    /\ now = 0
    /\ faults = 0
    /\ dbService = [azureSqlService EXCEPT !.pool = FALSE]

(* connectDb sets the pool; when it throws the pool stays unset. *)
connectDb ==
    /\ ~dbService.pool
    /\ \E connected \in BOOLEAN :
         dbService' = [dbService EXCEPT !.pool = connected]
    /\ req' = [s \in Slots |-> IF req[s].pc = "done" THEN Idle ELSE req[s]]
    /\ UNCHANGED <<dbVars, job, now, faults>>

(* The tables azure_schema_creation.sql creates. *)
Tables == {"visitors", "visits", "dependents", "audit_logs"}

AuditEvents == {"Compliance Cleanup Succeeded", "Compliance Cleanup Failed"}
AuditStatuses == {"OK", "ERROR"}
MaxDeleted == 1

logAuditRethrows(thrown) == thrown

(* catch (err) { console.error(...) }: nothing leaves logAudit *)
logAuditCatch(thrown) == FALSE

AuditFailedMessage == "CRITICAL: Failed to log audit event."
AuditRecordedMessage == "Audit log recorded"

(* A call of logAudit: the query and its parameters are built. *)
LogAuditCall(r) ==
    /\ FreeSlot(r)
    /\ \E eventName \in AuditEvents, status \in AuditStatuses,
          profilesDeleted \in 0..MaxDeleted, visitsDeleted \in 0..MaxDeleted,
          dependentsDeleted \in 0..MaxDeleted :
         req' = Put(r, [Arrive("logAudit") EXCEPT !.pc = "audit_insert",
                          !.params = <<eventName, status, profilesDeleted,
                                       visitsDeleted, dependentsDeleted>>])
    /\ UNCHANGED <<dbVars, job, now, faults, dbService>>

(* await executeQuery(query, params) in a try: executeQuery throws when    *)
(* the pool is not set, and when the statement fails, as INSERT INTO       *)
(* AuditLogs does when that table does not exist or the database fails.    *)
(* The row goes to AuditLogs, which is none of the tables of the schema.   *)
LogAuditInsert(r) ==
    /\ req[r].op = "logAudit" /\ req[r].pc = "audit_insert"
    /\ LET return(thrown) ==
             [Idle EXCEPT !.op = "logAudit", !.pc = "done",
                          !.params = req[r].params,
                          !.threw = logAuditCatch(thrown),
                          !.message = IF thrown THEN AuditFailedMessage
                                      ELSE AuditRecordedMessage]
       IN  \/ /\ ~dbService.pool
              /\ NoFault
              /\ req' = Put(r, return(TRUE))
           \/ /\ dbService.pool
              /\ Fault(r)
              /\ req' = Put(r, return(TRUE))
           \/ /\ dbService.pool
              /\ NoFault
              /\ req' = Put(r, return("AuditLogs" \notin Tables))
    /\ UNCHANGED <<dbVars, job, now, dbService>>

---------------------------------------------------------------------------
Next ==
    \/ Tick
    \/ JobStart
    \/ JobDelete
    \/ JobAudit
    \/ \E r \in Slots : RegisterCheck(r)
    \/ \E r \in Slots : RegisterTransaction(r)
    \/ \E r \in Slots : SignInStart(r)
    \/ \E r \in Slots : SignInFind(r)
    \/ \E r \in Slots : SignInDependents(r)
    \/ \E r \in Slots : SignInTransaction(r)
    \/ \E r \in Slots : SignOutStart(r)
    \/ \E r \in Slots : SignOutFind(r)
    \/ \E r \in Slots : SignOutUpdate(r)
    \/ \E r \in Slots : BanVisitor(r)
    \/ \E r \in Slots : UnbanVisitor(r)
    \/ \E r \in Slots : UpdateBegin(r)
    \/ \E r \in Slots : UpdateVerify(r)
    \/ \E r \in Slots : UpdateInsertVisit(r)
    \/ \E r \in Slots : UpdateInsertDependents(r)
    \/ \E r \in Slots : UpdateCommit(r)
    \/ \E r \in Slots : UpdateRollback(r)
    \/ \E r \in Slots : MissedStart(r)
    \/ \E r \in Slots : MissedSelect(r)
    \/ \E r \in Slots : MissedInsert(r)

(* Requests and the job interleave at every await. *)
Spec == Init /\ [][Next]_vars

(* The operations that write table visitors, two requests at a time. *)
NextRegistration ==
    \/ \E r \in Slots : RegisterCheck(r)
    \/ \E r \in Slots : RegisterTransaction(r)
    \/ \E r \in Slots : BanVisitor(r)
    \/ \E r \in Slots : UnbanVisitor(r)

SpecRegistration == Init /\ [][NextRegistration]_vars

(* A client that waits for each answer before its next call. *)
Sequential == {1}

(* The operations that sign a visitor in and the one that sets the ban:    *)
(* one client issues any of them, a second one SignIn and Ban, while a     *)
(* request of the first is in flight.                                      *)
NextSignIn ==
    \/ \E r \in Sequential : RegisterCheck(r)
    \/ \E r \in Sequential : RegisterTransaction(r)
    \/ \E r \in Slots : SignInStart(r)
    \/ \E r \in Slots : SignInFind(r)
    \/ \E r \in Slots : SignInDependents(r)
    \/ \E r \in Slots : SignInTransaction(r)
    \/ \E r \in Sequential : UpdateBegin(r)
    \/ \E r \in Sequential : UpdateVerify(r)
    \/ \E r \in Sequential : UpdateInsertVisit(r)
    \/ \E r \in Sequential : UpdateInsertDependents(r)
    \/ \E r \in Sequential : UpdateCommit(r)
    \/ \E r \in Sequential : UpdateRollback(r)
    \/ \E r \in Slots : BanVisitor(r)

SpecSignIn == Init /\ [][NextSignIn]_vars

(* The operations that read or write table visits, one request at a time.  *)
NextVisits ==
    \/ Tick
    \/ \E r \in Sequential : RegisterCheck(r)
    \/ \E r \in Sequential : RegisterTransaction(r)
    \/ \E r \in Sequential : SignInStart(r)
    \/ \E r \in Sequential : SignInFind(r)
    \/ \E r \in Sequential : SignInDependents(r)
    \/ \E r \in Sequential : SignInTransaction(r)
    \/ \E r \in Sequential : SignOutStart(r)
    \/ \E r \in Sequential : SignOutFind(r)
    \/ \E r \in Sequential : SignOutUpdate(r)
    \/ \E r \in Sequential : UpdateBegin(r)
    \/ \E r \in Sequential : UpdateVerify(r)
    \/ \E r \in Sequential : UpdateInsertVisit(r)
    \/ \E r \in Sequential : UpdateInsertDependents(r)
    \/ \E r \in Sequential : UpdateCommit(r)
    \/ \E r \in Sequential : UpdateRollback(r)
    \/ \E r \in Sequential : MissedStart(r)
    \/ \E r \in Sequential : MissedSelect(r)
    \/ \E r \in Sequential : MissedInsert(r)

SpecVisits == Init /\ [][NextVisits]_vars

(* The retention job among the operations that give it rows to delete or   *)
(* to keep, one request at a time.                                         *)
NextRetention ==
    \/ Tick
    \/ JobStart
    \/ JobDelete
    \/ JobAudit
    \/ \E r \in Sequential : RegisterCheck(r)
    \/ \E r \in Sequential : RegisterTransaction(r)
    \/ \E r \in Sequential : BanVisitor(r)

SpecRetention == Init /\ [][NextRetention]_vars

(* The clock advances while no request is in flight and the job is not     *)
(* running: a request is answered, and a run of the job is over, long      *)
(* before a retention window (two years) has gone by.                      *)
TickBetweenRequests ==
    /\ \A s \in Slots : Free(s)
    /\ job.pc = "idle"
    /\ Tick

(* The retention job interleaved with the operations that insert visits    *)
(* and dependents, one request at a time.                                  *)
NextIntegrity ==
    \/ TickBetweenRequests
    \/ JobStart
    \/ JobDelete
    \/ JobAudit
    \/ \E r \in Sequential : RegisterCheck(r)
    \/ \E r \in Sequential : RegisterTransaction(r)
    \/ \E r \in Sequential : SignInStart(r)
    \/ \E r \in Sequential : SignInFind(r)
    \/ \E r \in Sequential : SignInDependents(r)
    \/ \E r \in Sequential : SignInTransaction(r)
    \/ \E r \in Sequential : UpdateBegin(r)
    \/ \E r \in Sequential : UpdateVerify(r)
    \/ \E r \in Sequential : UpdateInsertVisit(r)
    \/ \E r \in Sequential : UpdateInsertDependents(r)
    \/ \E r \in Sequential : UpdateCommit(r)
    \/ \E r \in Sequential : UpdateRollback(r)
    \/ \E r \in Sequential : MissedStart(r)
    \/ \E r \in Sequential : MissedSelect(r)
    \/ \E r \in Sequential : MissedInsert(r)

SpecIntegrity == Init /\ [][NextIntegrity]_vars

(* Registrations with and without a photo, two at a time. *)
NextUpload ==
    \/ Tick
    \/ \E r \in Slots : RegisterUpload(r)
    \/ \E r \in Slots : RegisterCheck(r)
    \/ \E r \in Slots : RegisterTransaction(r)

SpecUpload == Init /\ [][NextUpload]_vars

(* The two read paths over a database that holds rows already, while one  *)
(* client signs visitors in and out; one request at a time.                *)
NextReads ==
    \/ Tick
    \/ \E r \in Sequential : SignInStart(r)
    \/ \E r \in Sequential : SignInFind(r)
    \/ \E r \in Sequential : SignInDependents(r)
    \/ \E r \in Sequential : SignInTransaction(r)
    \/ \E r \in Sequential : SearchStart(r)
    \/ \E r \in Sequential : SearchQuery(r)
    \/ \E r \in Sequential : HistoryStart(r)
    \/ \E r \in Sequential : HistoryQuery(r)

SpecReads == InitStored /\ [][NextReads]_vars

(* Calls of logAudit, two at a time, before and after connectDb. *)
NextAudit ==
    \/ Tick
    \/ connectDb
    \/ \E r \in Slots : LogAuditCall(r)
    \/ \E r \in Slots : LogAuditInsert(r)

SpecAudit == InitAudit /\ [][NextAudit]_vars

(* SignOut calls two at a time, for visitors one client registers and      *)
(* signs in, while the clock advances.                                     *)
NextSignOut ==
    \/ Tick
    \/ \E r \in Sequential : RegisterCheck(r)
    \/ \E r \in Sequential : RegisterTransaction(r)
    \/ \E r \in Sequential : SignInStart(r)
    \/ \E r \in Sequential : SignInFind(r)
    \/ \E r \in Sequential : SignInDependents(r)
    \/ \E r \in Sequential : SignInTransaction(r)
    \/ \E r \in Slots : SignOutStart(r)
    \/ \E r \in Slots : SignOutFind(r)
    \/ \E r \in Slots : SignOutUpdate(r)

SpecSignOut == Init /\ [][NextSignOut]_vars

(* The job has not been called yet. *)
BeforeJob == job.pc = "idle" /\ job.runs = 0

(* The clock advances until the job has run for the first time: a run     *)
(* that follows at once takes the threshold the first run took.            *)
TickBeforeJob == BeforeJob /\ Tick

(* The requests that are served before the first run. *)
RequestBeforeJob(r) ==
    /\ BeforeJob
    /\ \/ MissedStart(r)
       \/ MissedSelect(r)
       \/ MissedInsert(r)
       \/ BanVisitor(r)
       \/ UnbanVisitor(r)

(* The job run twice in a row over a database that holds rows already,     *)
(* after the requests of one client, with no request between the two runs. *)
NextRerun ==
    \/ TickBeforeJob
    \/ \E r \in Sequential : RequestBeforeJob(r)
    \/ JobStart
    \/ JobStartAgain
    \/ JobDelete
    \/ JobAudit

SpecRerun == InitStored /\ [][NextRerun]_vars

(* The retention job among Register, Ban and Unban, one request at a time. *)
NextLifecycle ==
    \/ Tick
    \/ JobStart
    \/ JobDelete
    \/ JobAudit
    \/ \E r \in Sequential : RegisterCheck(r)
    \/ \E r \in Sequential : RegisterTransaction(r)
    \/ \E r \in Sequential : BanVisitor(r)
    \/ \E r \in Sequential : UnbanVisitor(r)

SpecLifecycle == Init /\ [][NextLifecycle]_vars

(* Every operation that writes a table, the job apart, one request at a    *)
(* time, over a database that holds a visitor with a closed visit.         *)
NextRequests ==
    \/ TickBetweenRequests
    \/ \E r \in Sequential : RegisterCheck(r)
    \/ \E r \in Sequential : RegisterTransaction(r)
    \/ \E r \in Sequential : SignInStart(r)
    \/ \E r \in Sequential : SignInFind(r)
    \/ \E r \in Sequential : SignInDependents(r)
    \/ \E r \in Sequential : SignInTransaction(r)
    \/ \E r \in Sequential : SignOutStart(r)
    \/ \E r \in Sequential : SignOutFind(r)
    \/ \E r \in Sequential : SignOutUpdate(r)
    \/ \E r \in Sequential : BanVisitor(r)
    \/ \E r \in Sequential : UnbanVisitor(r)
    \/ \E r \in Sequential : UpdateBegin(r)
    \/ \E r \in Sequential : UpdateVerify(r)
    \/ \E r \in Sequential : UpdateInsertVisit(r)
    \/ \E r \in Sequential : UpdateInsertDependents(r)
    \/ \E r \in Sequential : UpdateCommit(r)
    \/ \E r \in Sequential : UpdateRollback(r)
    \/ \E r \in Sequential : MissedStart(r)
    \/ \E r \in Sequential : MissedSelect(r)
    \/ \E r \in Sequential : MissedInsert(r)

SpecRequests == InitOneStored /\ [][NextRequests]_vars

(* The reads of a client that reads before it writes: the tables are as    *)
(* the server found them.                                                  *)
ReadStartAsStored(r) ==
    /\ visitors = {VisitorRow(1, "John", "Doe")}
    /\ visits = {VisitRow(1, 1, 0, 0, "A1")}
    /\ \/ SearchStart(r)
       \/ HistoryStart(r)

(* The nine operations the server mounts, one request at a time. *)
NextResponses ==
    \/ TickBetweenRequests
    \/ \E r \in Sequential : RegisterCheck(r)
    \/ \E r \in Sequential : RegisterTransaction(r)
    \/ \E r \in Sequential : SignInStart(r)
    \/ \E r \in Sequential : SignInFind(r)
    \/ \E r \in Sequential : SignInDependents(r)
    \/ \E r \in Sequential : SignInTransaction(r)
    \/ \E r \in Sequential : SignOutStart(r)
    \/ \E r \in Sequential : SignOutFind(r)
    \/ \E r \in Sequential : SignOutUpdate(r)
    \/ \E r \in Sequential : BanVisitor(r)
    \/ \E r \in Sequential : UnbanVisitor(r)
    \/ \E r \in Sequential : UpdateBegin(r)
    \/ \E r \in Sequential : UpdateVerify(r)
    \/ \E r \in Sequential : UpdateInsertVisit(r)
    \/ \E r \in Sequential : UpdateInsertDependents(r)
    \/ \E r \in Sequential : UpdateCommit(r)
    \/ \E r \in Sequential : UpdateRollback(r)
    \/ \E r \in Sequential : MissedStart(r)
    \/ \E r \in Sequential : MissedSelect(r)
    \/ \E r \in Sequential : MissedInsert(r)
    \/ \E r \in Sequential : ReadStartAsStored(r)
    \/ \E r \in Sequential : SearchQuery(r)
    \/ \E r \in Sequential : HistoryQuery(r)

(* The continuation of a handler after an await: the database answers      *)
(* every statement, with rows or with an error, and the event loop then    *)
(* runs what follows the await.                                            *)
Continues(r) ==
    \/ RegisterTransaction(r)
    \/ SignInFind(r)
    \/ SignInDependents(r)
    \/ SignInTransaction(r)
    \/ SignOutFind(r)
    \/ SignOutUpdate(r)
    \/ UpdateVerify(r)
    \/ UpdateInsertVisit(r)
    \/ UpdateInsertDependents(r)
    \/ UpdateCommit(r)
    \/ UpdateRollback(r)
    \/ MissedSelect(r)
    \/ MissedInsert(r)
    \/ SearchQuery(r)
    \/ HistoryQuery(r)

SpecResponses ==
    /\ InitOneStored
    /\ [][NextResponses]_vars
    /\ \A r \in Sequential : WF_vars(Continues(r))

(* SignIn, Ban and Unban against a database that holds rows already, two   *)
(* requests at a time.                                                     *)
NextStoredSignIn ==
    \/ Tick
    \/ \E r \in Slots : SignInStart(r)
    \/ \E r \in Slots : SignInFind(r)
    \/ \E r \in Slots : SignInDependents(r)
    \/ \E r \in Slots : SignInTransaction(r)
    \/ \E r \in Slots : BanVisitor(r)
    \/ \E r \in Slots : UnbanVisitor(r)

SpecStoredSignIn == InitStored /\ [][NextStoredSignIn]_vars

---------------------------------------------------------------------------
(* Registration *)

(* The step in which the Register of slot r runs its transaction and       *)
(* answers.                                                                *)
RegisterAnswers(r) ==
    /\ req[r].op = "Register" /\ req[r].pc = "reg_tx"
    /\ req'[r].pc = "done"

(* A step in which a Register arrives in slot r and runs its pre-check.    *)
RegisterArrives(r) ==
    /\ Free(r)
    /\ req'[r].op = "Register"
    /\ req'[r] # req[r]

(* C1: Register is all-or-nothing. Whatever statement of its transaction   *)
(* fails (the visitor insert, the visit insert, a dependent insert, the    *)
(* parse of the dependents JSON, the commit), the step that answers leaves *)
(* either the tables as they were, with an answer other than 201, or one   *)
(* new visitor row of the requested name, one new visit row of that        *)
(* visitor and one new dependent row of that visit per declared dependent, *)
(* with the answer 201.                                                    *)
C1_RegisterAllOrNothing ==
    [][\A r \in Slots : RegisterAnswers(r) =>
         \/ /\ visitors' = visitors
            /\ visits' = visits
            /\ dependents' = dependents
            /\ req'[r].status # 201
         \/ \E v \in visitors' \ visitors, w \in visits' \ visits :
              /\ visitors' = visitors \cup {v}
              /\ v.first_name = req[r].first_name
              /\ v.last_name = req[r].last_name
              /\ visits' = visits \cup {w}
              /\ w.visitor_id = v.id
              /\ dependents \subseteq dependents'
              /\ Cardinality(dependents' \ dependents)
                   = Len(req[r].additional_dependents.list)
              /\ \A d \in dependents' \ dependents : d.visit_id = w.id
              /\ req'[r].status = 201]_vars

(* A Register has answered 500 after its dependent insert ran: the         *)
(* identity of table dependents has moved on, and no row of the three      *)
(* tables is there.                                                        *)
C1_Witness ==
    \E r \in Slots :
       /\ req[r].op = "Register" /\ req[r].pc = "done"
       /\ req[r].status = 500
       /\ identity.dependents > 1
       /\ visitors = {} /\ visits = {} /\ dependents = {}

(* C2: with the dbService of azureSqlService.js, of two Register calls     *)
(* made one after the other with the same first and last name, the first   *)
(* (the name is in no visitor row) gets past the pre-check, begins its     *)
(* transaction and, its dependents well-formed and no statement failed by  *)
(* the database, is answered 201 with the id of the new visitor row; the   *)
(* second (the name is in a visitor row) is answered 409 by the pre-check, *)
(* begins no transaction and leaves the tables as they were.               *)
C2_SecondRegisterConflicts ==
    [][\A r \in Sequential :
         /\ (/\ dbService = azureSqlService
             /\ RegisterArrives(r)
             /\ faults' = faults
             /\ IX_visitors_FullName(visitors, req'[r].first_name,
                                     req'[r].last_name))
            => req'[r].pc = "reg_tx"
         /\ (/\ dbService = azureSqlService
             /\ RegisterAnswers(r)
             /\ faults' = faults
             /\ req[r].additional_dependents.ok)
            => /\ req'[r].status = 201
               /\ \E v \in visitors' \ visitors : v.id = req'[r].id
         /\ (/\ dbService = azureSqlService
             /\ RegisterArrives(r)
             /\ faults' = faults
             /\ ~IX_visitors_FullName(visitors, req'[r].first_name,
                                      req'[r].last_name))
            => /\ req'[r].pc = "done"
               /\ req'[r].status = 409
               /\ UNCHANGED dbVars]_vars

(* C3: no two rows of table visitors have the same first and last name, in *)
(* any state, those reached by two Registers of one name that both passed  *)
(* the pre-check included.                                                 *)
C3_UniqueFullName ==
    \A v, w \in visitors :
       (v.first_name = w.first_name /\ v.last_name = w.last_name) => v = w

(* A Register that passed its pre-check (the gateway returns row arrays,   *)
(* so a name it found would have been answered 409) has had its visitor    *)
(* insert rejected: it answered 500 with no statement failed by the        *)
(* database, and a visitor row has its name.                               *)
C3_Witness ==
    \E r \in Slots :
       /\ req[r].op = "Register" /\ req[r].pc = "done"
       /\ req[r].status = 500
       /\ faults = 0
       /\ dbService.getPool /\ dbService.executeQuery = "recordset"
       /\ \E v \in visitors : /\ v.first_name = req[r].first_name
                              /\ v.last_name = req[r].last_name

---------------------------------------------------------------------------
(* Sign-in *)

(* The step in which the SignIn of slot r gets the answer of its first     *)
(* query, which the database did not fail.                                 *)
SignInFinds(r) ==
    /\ req[r].op = "SignIn" /\ req[r].pc = "in_find"
    /\ req'[r] # req[r]
    /\ faults' = faults

(* C4: a SignIn whose id is of no visitor row is answered 404, and one of  *)
(* a visitor whose is_banned is true is answered 403; both at the first    *)
(* query, so that no transaction is begun, and with no row of any table    *)
(* added or changed. (The gateway returns row arrays, as azureSqlService   *)
(* does, and the database does not fail the query.)                        *)
C4_SignInNotFoundOrBanned ==
    [][\A r \in Slots :
         (SignInFinds(r) /\ dbService.executeQuery = "recordset") =>
           /\ (\A v \in visitors : v.id # req[r].id)
              => /\ req'[r].pc = "done"
                 /\ req'[r].status = 404
                 /\ UNCHANGED dbVars
           /\ (\E v \in visitors : v.id = req[r].id /\ v.is_banned)
              => /\ req'[r].pc = "done"
                 /\ req'[r].status = 403
                 /\ UNCHANGED dbVars]_vars

(* A SignIn for a banned visitor has been answered 403. *)
C4_Witness ==
    \E r \in Slots :
       /\ req[r].op = "SignIn" /\ req[r].pc = "done"
       /\ req[r].status = 403
       /\ \E v \in visitors : v.id = req[r].id /\ v.is_banned

(* C5: no step inserts an open visit (exit_time NULL) for a visitor whose   *)
(* is_banned is true when the visit is inserted, whatever SignIn,          *)
(* UpdateAndSignIn and Ban requests interleave.                            *)
C5_NoOpenVisitForBanned ==
    [][\A w \in visits' \ visits :
         w.exit_time = NULL =>
           \A v \in visitors : v.id = w.visitor_id => ~IsBanned(v)]_vars

---------------------------------------------------------------------------
(* Visits *)

(* The step in which the SignOut of slot r gets the answer of its find     *)
(* query, which the database did not fail.                                 *)
SignOutFinds(r) ==
    /\ req[r].op = "SignOut" /\ req[r].pc = "out_find"
    /\ req'[r] # req[r]
    /\ faults' = faults

(* The step in which the SignOut of slot r runs its update and answers.    *)
SignOutAnswers(r) ==
    /\ req[r].op = "SignOut" /\ req[r].pc = "out_update"
    /\ req'[r].pc = "done"

(* C6: a SignOut answered 200 has set exit_time, to the time the handler   *)
(* took, on exactly one visit: an open visit of the visitor none of whose  *)
(* open visits has a greater entry_time; every other visit, every visitor  *)
(* and every dependent is as it was. (One request at a time.)              *)
C6_SignOutFrame ==
    [][\A r \in Sequential :
         (SignOutAnswers(r) /\ req'[r].status = 200) =>
           /\ \E w \in visits :
                /\ w.visitor_id = req[r].id
                /\ w.exit_time = NULL
                /\ \A x \in visits :
                     (x.visitor_id = req[r].id /\ x.exit_time = NULL)
                       => x.entry_time <= w.entry_time
                /\ visits' = (visits \ {w})
                               \cup {[w EXCEPT !.exit_time = req[r].t]}
                /\ req[r].t # NULL
           /\ visitors' = visitors
           /\ dependents' = dependents]_vars

(* A SignOut has been answered 200 for a visitor who had two open visits:  *)
(* the later one is closed, the earlier one still open.                    *)
C6_Witness ==
    \E r \in Sequential :
       /\ req[r].op = "SignOut" /\ req[r].pc = "done"
       /\ req[r].status = 200
       /\ \E w, x \in visits :
            /\ w.visitor_id = req[r].id /\ x.visitor_id = req[r].id
            /\ w.exit_time # NULL /\ x.exit_time = NULL
            /\ x.entry_time < w.entry_time

(* C7: of two SignOut calls in a row for the same visitor, the first is    *)
(* answered 200 only if the visitor had an open visit, and the second,     *)
(* which follows a first answered 200, is answered 404 and updates         *)
(* nothing.                                                                *)
C7_SecondSignOutNotFound ==
    [][\A r \in Sequential :
         /\ (SignOutFinds(r) /\ req'[r].pc = "out_update")
            => ActiveVisits(req[r].id) # {}
         /\ (SignOutFinds(r) /\ req[r].prev = 200)
            => /\ req'[r].pc = "done"
               /\ req'[r].status = 404
               /\ UNCHANGED dbVars]_vars

(* C8: every visitor has at most one visit whose exit_time is NULL. *)
C8_AtMostOneOpenVisit ==
    \A v \in visitors :
       Cardinality({w \in visits : w.visitor_id = v.id
                                   /\ w.exit_time = NULL}) <= 1

---------------------------------------------------------------------------
(* Retention *)

(* A step in which one DELETE of the job runs. *)
JobDeletesStep ==
    /\ job.pc \in {"step1", "step2", "step3"}
    /\ job' # job

(* The step that ends a run none of whose three DELETEs threw. *)
JobEndsOK ==
    /\ job.pc = "audit" /\ job.auditStatus = "OK"
    /\ job'.pc = "idle"

(* C9: a run of the job whose three DELETEs succeed removes exactly the    *)
(* visits whose entry_time is before the threshold taken at its start and  *)
(* the dependents of those visits: each DELETE removes no other visit and  *)
(* no other dependent and adds none, and at the end of the run no visit    *)
(* before the threshold and no dependent of such a visit is left.          *)
C9_RetentionRemovesExpired ==
    [][/\ JobDeletesStep =>
            /\ visits' \subseteq visits
            /\ dependents' \subseteq dependents
            /\ \A w \in visits \ visits' : w.entry_time < job.twoYearsAgo
            /\ \A d \in dependents \ dependents' :
                 \E w \in visits : /\ w.id = d.visit_id
                                   /\ w.entry_time < job.twoYearsAgo
       /\ JobEndsOK =>
            /\ \A w \in visits : w.entry_time >= job.twoYearsAgo
            /\ \A d \in dependents : \E w \in visits : w.id = d.visit_id]_vars

(* A run has ended with status OK after it deleted a visit and a           *)
(* dependent, and a visit is still there.                                  *)
C9_Witness ==
    /\ job.pc = "idle"
    /\ visits # {}
    /\ \E i \in DOMAIN audit_logs :
         /\ audit_logs[i].status = "OK"
         /\ audit_logs[i].visits_deleted >= 1
         /\ audit_logs[i].dependents_deleted >= 1

(* C10: no DELETE of the job removes a visitor whose is_banned is true or  *)
(* who has a visit, and at the end of a run whose three DELETEs succeeded  *)
(* every visitor left is banned or has a visit.                            *)
C10_RetentionKeepsBannedAndVisited ==
    [][/\ JobDeletesStep =>
            \A p \in visitors \ visitors' :
               /\ ~p.is_banned
               /\ ~\E w \in visits : w.visitor_id = p.id
       /\ JobEndsOK =>
            \A p \in visitors :
               p.is_banned \/ \E w \in visits : w.visitor_id = p.id]_vars

(* A run has ended with status OK after it deleted a visitor, and a banned *)
(* visitor without a visit is still there.                                 *)
C10_Witness ==
    /\ job.pc = "idle"
    /\ \E i \in DOMAIN audit_logs :
         /\ audit_logs[i].status = "OK"
         /\ audit_logs[i].profiles_deleted >= 1
    /\ \E p \in visitors :
         /\ p.is_banned
         /\ ~\E w \in visits : w.visitor_id = p.id

(* The step in which the job writes its audit row and calls back. *)
JobWritesAudit ==
    /\ job.pc = "audit"
    /\ job' # job

(* C11: a run of the job attempts one write of an audit row, after its     *)
(* DELETE steps have ended and never during them; the status it writes is  *)
(* OK if and only if the run went through all three steps with none of     *)
(* them throwing, and ERROR otherwise; a write the database does not fail  *)
(* adds exactly one row, so that there is at most one row per run.         *)
C11_OneAuditPerRun ==
    [][/\ Len(audit_logs) <= job.runs
       /\ JobDeletesStep =>
            /\ audit_logs' = audit_logs
            /\ job.auditStatus = "OK"
            /\ job'.pc = "audit" =>
                 (job'.auditStatus = "OK"
                    <=> (job.pc = "step3" /\ job'.errorMessage = ""))
            /\ job'.pc # "audit" =>
                 (job'.auditStatus = "OK" /\ job'.errorMessage = "")
            /\ job'.auditStatus \in {"OK", "ERROR"}
       /\ JobWritesAudit =>
            /\ job'.pc = "idle"
            /\ job'.runs = job.runs + 1
            /\ \/ audit_logs' = audit_logs /\ faults' # faults
               \/ /\ Len(audit_logs') = Len(audit_logs) + 1
                  /\ SubSeq(audit_logs', 1, Len(audit_logs)) = audit_logs
                  /\ audit_logs'[Len(audit_logs')].status = job.auditStatus
       /\ audit_logs' # audit_logs => JobWritesAudit]_vars

(* With the dbService of azureSqlService.js a run has ended and written    *)
(* one audit row, of status ERROR.                                         *)
C11_Witness ==
    /\ dbService = azureSqlService
    /\ job.pc = "idle"
    /\ job.runs = 1
    /\ Len(audit_logs) = 1
    /\ audit_logs[1].status = "ERROR"

(* C12: the counters of the audit row are those the run holds when its     *)
(* DELETE steps have ended. A step that completes records the number of    *)
(* rows its DELETE removed and leaves the other two counters; a step that  *)
(* throws records nothing and is followed by no other DELETE step, so the  *)
(* counter of the failed step and of every later step is zero.             *)
C12_AuditCounts ==
    [][/\ job.pc = "step1" =>
            job.deletedCounts = [dependents |-> 0, visits |-> 0,
                                 profiles |-> 0]
       /\ job.pc = "step2" =>
            (job.deletedCounts.visits = 0 /\ job.deletedCounts.profiles = 0)
       /\ job.pc = "step3" => job.deletedCounts.profiles = 0
       /\ JobDeletesStep =>
            /\ job.auditStatus = "OK"
            /\ job'.auditStatus = "ERROR" =>
                 (job'.pc = "audit" /\ job'.deletedCounts = job.deletedCounts)
            /\ job'.auditStatus = "OK" =>
                 job'.deletedCounts =
                   CASE job.pc = "step1" ->
                          [job.deletedCounts EXCEPT !.dependents =
                             Cardinality(dependents \ dependents')]
                     [] job.pc = "step2" ->
                          [job.deletedCounts EXCEPT !.visits =
                             Cardinality(visits \ visits')]
                     [] job.pc = "step3" ->
                          [job.deletedCounts EXCEPT !.profiles =
                             Cardinality(visitors \ visitors')]
       /\ JobWritesAudit =>
            /\ UNCHANGED <<visitors, visits, dependents>>
            /\ audit_logs' # audit_logs =>
                 LET entry == audit_logs'[Len(audit_logs')]
                 IN  /\ entry.dependents_deleted = job.deletedCounts.dependents
                     /\ entry.visits_deleted = job.deletedCounts.visits
                     /\ entry.profiles_deleted = job.deletedCounts.profiles]_vars

(* A run whose first step deleted a dependent and whose second step failed *)
(* has written its audit row: ERROR, one dependent, no visit, no profile;  *)
(* the expired visit is still there.                                       *)
C12_Witness ==
    /\ job.pc = "idle"
    /\ \E i \in DOMAIN audit_logs :
         /\ audit_logs[i].status = "ERROR"
         /\ audit_logs[i].dependents_deleted = 1
         /\ audit_logs[i].visits_deleted = 0
         /\ audit_logs[i].profiles_deleted = 0
    /\ visits # {}
    /\ dependents = {}

(* C13: a run of the job always ends and calls back exactly once. While    *)
(* the run is in a DELETE step or at the audit write its next step can be  *)
(* taken and the callback has not been called; a DELETE step that throws   *)
(* leads to the audit write; the audit write, whether the database fails   *)
(* it or not, ends the run and calls back once, with the empty string when *)
(* all three DELETE steps succeeded and with the message of the error that *)
(* ended the steps otherwise.                                              *)
C13_JobAlwaysCallsBack ==
    [][/\ job.pc \in {"step1", "step2", "step3"} =>
            (ENABLED JobDelete /\ job.callbacks = <<>>)
       /\ job.pc = "audit" => (ENABLED JobAudit /\ job.callbacks = <<>>)
       /\ JobDeletesStep =>
            /\ job'.pc \in {"step2", "step3", "audit"}
            /\ job'.callbacks = <<>>
            /\ job'.errorMessage = "" <=> job'.auditStatus = "OK"
            /\ job'.pc = "audit" =>
                 (job'.errorMessage = "" <=> job.pc = "step3"
                                              /\ job'.auditStatus = "OK")
       /\ JobWritesAudit =>
            /\ job'.pc = "idle"
            /\ job'.callbacks = <<job.errorMessage>>
            /\ job.errorMessage = "" <=> job.auditStatus = "OK"
       /\ job'.callbacks # job.callbacks =>
            \/ JobWritesAudit
            \/ job.pc = "idle" /\ job'.pc = "step1" /\ job'.callbacks = <<>>]_vars

(* A run whose three DELETE steps succeeded and whose audit write the      *)
(* database failed has called back with the empty string.                  *)
C13_Witness ==
    /\ job.pc = "idle"
    /\ job.runs = 1
    /\ job.callbacks = <<"">>
    /\ audit_logs = <<>>
    /\ faults = 1

---------------------------------------------------------------------------
(* Referential integrity *)

(* Every dependent names a visit of table visits and every visit a visitor *)
(* of table visitors.                                                      *)
ReferentialIntegrity ==
    /\ \A d \in dependents : \E w \in visits : w.id = d.visit_id
    /\ \A w \in visits : \E v \in visitors : v.id = w.visitor_id

---------------------------------------------------------------------------
(* Missed visits *)

(* A step in which a RecordMissedVisit arrives in slot r and is validated. *)
MissedArrives(r) ==
    /\ Free(r)
    /\ req'[r].op = "RecordMissedVisit"
    /\ req'[r] # req[r]

(* The request of slot r is answered 400 with the message of the entry     *)
(* time check, and no statement was sent to the database.                  *)
RejectedAsInvalidTime(r) ==
    /\ req'[r].pc = "done"
    /\ req'[r].status = 400
    /\ req'[r].message = InvalidEntryTimeMessage
    /\ UNCHANGED dbVars
    /\ faults' = faults

(* C15, as amended: a RecordMissedVisit that carries a visitorId and a     *)
(* non-empty pastEntryTime which does not parse as a date, or which is at  *)
(* or after the current time, is answered 400 with the one message of the  *)
(* entry time check, before any statement is sent to the database and with *)
(* no visit created; a request without visitorId, or whose pastEntryTime   *)
(* is absent or the empty string, is answered 400 with the message of the  *)
(* presence check.                                                         *)
C15_MissedRejectsInvalidTime ==
    [][\A r \in Sequential :
         MissedArrives(r) =>
           /\ (/\ req'[r].id # 0
               /\ ~IsMissing(req'[r].pastEntryTime)
               /\ \/ req'[r].pastEntryTime \notin Times
                  \/ req'[r].pastEntryTime >= now)
              => RejectedAsInvalidTime(r)
           /\ (req'[r].id = 0 \/ IsMissing(req'[r].pastEntryTime))
              => /\ req'[r].pc = "done"
                 /\ req'[r].status = 400
                 /\ req'[r].message = MissingMessage
                 /\ UNCHANGED dbVars]_vars

(* A RecordMissedVisit whose pastEntryTime is the current time has been    *)
(* answered 400 with the message of the entry time check.                  *)
C15_Witness ==
    \E r \in Sequential :
       /\ req[r].op = "RecordMissedVisit" /\ req[r].pc = "done"
       /\ req[r].status = 400
       /\ req[r].message = InvalidEntryTimeMessage
       /\ req[r].pastEntryTime = now
       /\ now > 0

(* C15, as stated: every pastEntryTime sent with a visitorId that does not *)
(* parse as a date or is at or after the current time is answered 400 with *)
(* the same message, that of the entry time check, and nothing is written. *)
C15_AnyUnparsableSameMessage ==
    [][\A r \in Sequential :
         (/\ MissedArrives(r)
          /\ req'[r].id # 0
          /\ req'[r].pastEntryTime # NULL
          /\ \/ req'[r].pastEntryTime \notin Times
             \/ req'[r].pastEntryTime >= now)
         => RejectedAsInvalidTime(r)]_vars

(* A step of the RecordMissedVisit of slot r, for a visitor of table       *)
(* visitors, in which the database does not fail the statement.            *)
MissedProceeds(r) ==
    /\ req[r].op = "RecordMissedVisit"
    /\ req[r].pc \in {"mv_select", "mv_insert"}
    /\ req'[r] # req[r]
    /\ faults' = faults
    /\ \E v \in visitors : v.id = req[r].id

(* C16: a RecordMissedVisit with a valid past time, for an existing        *)
(* visitor and with no statement failed by the database, takes its         *)
(* descriptive fields from the visitor's visit of greatest entry_time, or  *)
(* the placeholder "--" when the visitor has no visit, then adds exactly   *)
(* one visit of that visitor, with entry_time the given past time,         *)
(* exit_time the time the handler took and those fields, and answers 200.  *)
C16_MissedAddsOneVisit ==
    [][\A r \in Sequential :
         /\ (MissedProceeds(r) /\ req[r].pc = "mv_select") =>
              /\ req'[r].pc = "mv_insert"
              /\ UNCHANGED dbVars
              /\ LET mine == {w \in visits : w.visitor_id = req[r].id}
                 IN  IF mine = {} THEN req'[r].unit = "--"
                     ELSE \E w \in mine :
                            /\ \A x \in mine : x.entry_time <= w.entry_time
                            /\ req'[r].unit = w.unit
         /\ (MissedProceeds(r) /\ req[r].pc = "mv_insert") =>
              /\ req'[r].pc = "done"
              /\ req'[r].status = 200
              /\ \E w \in visits' \ visits :
                   /\ visits' = visits \cup {w}
                   /\ w.visitor_id = req[r].id
                   /\ w.entry_time = req[r].pastEntryTime
                   /\ w.exit_time = req[r].t
                   /\ w.unit = req[r].unit
              /\ UNCHANGED <<visitors, dependents>>]_vars

---------------------------------------------------------------------------
(* Ban and Unban *)

(* A step in which a request of operation op arrives in slot r for a       *)
(* well-formed id and is answered, with no statement failed by the         *)
(* database.                                                               *)
BanOrUnbanAnswers(r, op) ==
    /\ Free(r)
    /\ req'[r].op = op
    /\ req'[r] # req[r]
    /\ req'[r].id # 0
    /\ faults' = faults

(* C17: Ban, and Unban with the master password, of an existing visitor    *)
(* are answered 200 and leave is_banned true, respectively false, on that  *)
(* visitor; of an id that is of no visitor they are answered 404 and       *)
(* change no row.                                                          *)
C17_BanUnbanAnswers ==
    [][\A r \in Slots :
         /\ BanOrUnbanAnswers(r, "Ban") =>
              IF \E v \in visitors : v.id = req'[r].id
              THEN /\ req'[r].status = 200
                   /\ \A v \in visitors' : v.id = req'[r].id => v.is_banned
              ELSE /\ req'[r].status = 404
                   /\ UNCHANGED dbVars
         /\ (BanOrUnbanAnswers(r, "Unban") /\ req'[r].password = "master") =>
              IF \E v \in visitors : v.id = req'[r].id
              THEN /\ req'[r].status = 200
                   /\ \A v \in visitors' : v.id = req'[r].id => ~v.is_banned
              ELSE /\ req'[r].status = 404
                   /\ UNCHANGED dbVars]_vars

C19_BanNeedsPassword ==
    [][/\ (\E v \in visitors, w \in visitors' :
             v.id = w.id /\ v.is_banned # w.is_banned)
          => \E r \in Slots :
               /\ BanOrUnbanAnswers(r, req'[r].op)
               /\ req'[r].op \in {"Ban", "Unban"}
               /\ req'[r].password = "master"
       /\ \A r \in Slots :
            (/\ Free(r)
             /\ req'[r] # req[r]
             /\ req'[r].op \in {"Ban", "Unban"}
             /\ req'[r].id # 0
             /\ req'[r].password # "master")
            => /\ req'[r].status = 403
               /\ UNCHANGED dbVars
               /\ faults' = faults]_vars

---------------------------------------------------------------------------
(* Sign-in copies the last visit forward *)

(* The visits of visitor id none of whose visits has a greater entry_time. *)
LatestVisits(id) ==
    {w \in visits : /\ w.visitor_id = id
                    /\ \A x \in visits :
                         x.visitor_id = id => x.entry_time <= w.entry_time}

(* Dependent rows `copies` carry the full_name of rows `originals`, one    *)
(* for one.                                                                *)
SameNames(copies, originals) ==
    \A nm \in {d.full_name : d \in copies \cup originals} :
       Cardinality({d \in copies : d.full_name = nm})
         = Cardinality({d \in originals : d.full_name = nm})

(* The step in which the SignIn of slot r reads the dependents of the      *)
(* visit it found, with no statement failed by the database.               *)
SignInReadsDependents(r) ==
    /\ req[r].op = "SignIn" /\ req[r].pc = "in_deps"
    /\ req'[r].pc = "in_tx"

(* The step in which the SignIn of slot r runs its transaction and is      *)
(* answered 200.                                                           *)
SignInSucceeds(r) ==
    /\ req[r].op = "SignIn" /\ req[r].pc = "in_tx"
    /\ req'[r].pc = "done"
    /\ req'[r].status = 200

---------------------------------------------------------------------------
(* Sign-in without a visit *)

(* C21: a SignIn for a visitor who exists, is not banned and has no visit  *)
(* is answered 404 by the check of last_visit_data, and no row of any      *)
(* table is added or changed. (The gateway returns row arrays, as          *)
(* azureSqlService does, and the database does not fail the query.)        *)
C21_SignInWithoutVisit ==
    [][\A r \in Slots :
         (/\ SignInFinds(r)
          /\ dbService.executeQuery = "recordset"
          /\ \E v \in visitors : v.id = req[r].id /\ ~v.is_banned
          /\ \A w \in visits : w.visitor_id # req[r].id)
         => /\ req'[r].pc = "done"
            /\ req'[r].status = 404
            /\ UNCHANGED dbVars]_vars

(* A SignIn has been answered 404 for a visitor who is not banned and has  *)
(* no visit, while another visitor has one.                                *)
C21_Witness ==
    \E r \in Slots :
       /\ req[r].op = "SignIn" /\ req[r].pc = "done"
       /\ req[r].status = 404
       /\ \E v \in visitors : v.id = req[r].id /\ ~v.is_banned
       /\ \A w \in visits : w.visitor_id # req[r].id
       /\ visits # {}

---------------------------------------------------------------------------
(* Update for an unknown visitor *)

(* The step in which UpdateAndSignIn reads the result of its SELECT. *)
UpdateVerifies(r) ==
    /\ req[r].op = "UpdateAndSignIn" /\ req[r].pc = "up_verify"
    /\ req'[r].op = "UpdateAndSignIn" /\ req'[r].pc # "up_verify"

(* The step in which UpdateAndSignIn rolls back and answers. *)
UpdateRollsBack(r) ==
    /\ req[r].op = "UpdateAndSignIn" /\ req[r].pc = "up_rollback"
    /\ req'[r].pc = "done"

(* C22: an UpdateAndSignIn whose id matches no visitor goes, when no       *)
(* statement is failed by the database, from its SELECT to the rollback    *)
(* with the answer 404, and the rollback answers 404; no visit and no      *)
(* dependent is added.                                                     *)
C22_UpdateUnknownVisitor ==
    [][\A r \in Sequential :
         /\ (/\ UpdateVerifies(r)
             /\ faults' = 0
             /\ \A v \in visitors : v.id # req[r].id)
            => /\ req'[r].pc = "up_rollback"
               /\ req'[r].status = 404
               /\ UNCHANGED dbVars
         /\ (/\ UpdateRollsBack(r)
             /\ faults' = 0
             /\ \A v \in visitors : v.id # req[r].id)
            => /\ req'[r].status = 404
               /\ UNCHANGED dbVars]_vars

---------------------------------------------------------------------------
(* The uploaded photo *)

(* C23: a Register that staged a photo file and is answered anything but   *)
(* 201 has no staged file left when it is answered.                        *)
C23_PhotoCleanedUp ==
    \A r \in Slots :
       (req[r].op = "Register" /\ req[r].pc = "done" /\ req[r].status # 201)
       => req[r].file # "staged"

---------------------------------------------------------------------------
(* The read paths *)

(* The step in which GET /history queries and answers. *)
HistoryAnswers(r) ==
    /\ req[r].op = "History" /\ req[r].pc = "history_query"
    /\ req'[r].pc = "done"

(* The day an instant of the clock falls on. *)
DayOf(t) == t \div TicksPerDay

(* C24: a History with start_date and end_date and no search term, which   *)
(* the database does not fail and whose gateway returns row arrays, is     *)
(* answered 200 with exactly the visits (joined to their visitor) whose    *)
(* entry_time falls on a day from start_date to end_date, both included,   *)
(* whatever their exit_time.                                               *)
C24_HistoryDateRange ==
    [][\A r \in Sequential :
         (/\ HistoryAnswers(r)
          /\ faults' = faults
          /\ dbService.executeQuery = "recordset"
          /\ IsFalsyParam(req[r].search)
          /\ req[r].start_date # NULL
          /\ req[r].end_date # NULL)
         => /\ req'[r].status = 200
            /\ {row.visit_id : row \in req'[r].body} =
                 {w.id : w \in
                    {x \in visits :
                       /\ \E v \in visitors : v.id = x.visitor_id
                       /\ req[r].start_date <= DayOf(x.entry_time)
                       /\ DayOf(x.entry_time) <= req[r].end_date}}]_vars

(* A History for one day has returned an open visit entered at the last    *)
(* instant of that day together with a closed one.                         *)
C24_Witness ==
    \E r \in Sequential :
       /\ req[r].op = "History" /\ req[r].pc = "done" /\ req[r].status = 200
       /\ req[r].start_date # NULL /\ req[r].start_date = req[r].end_date
       /\ ~req[r].search.present
       /\ \E row \in req[r].body :
             /\ row.entry_time = EndOfDay(req[r].start_date)
             /\ row.exit_time = NULL
       /\ \E row \in req[r].body : row.exit_time # NULL

(* The step in which a GET /visitor-search arrives. *)
SearchArrives(r) ==
    /\ req'[r].op = "SearchByName"
    /\ req[r].pc \in {"idle", "done"}
    /\ req'[r] # req[r]

(* A string that consists of whitespace only (the empty one included). *)
OnlyWhitespace(chars) == \A i \in 1..Len(chars) : chars[i] \in {" ", "\t"}

(* C25: a SearchByName whose name is missing, empty or whitespace only is  *)
(* answered 400 on arrival, before any query is sent to the database.      *)
C25_SearchRejectsBlank ==
    [][\A r \in Sequential :
         (/\ SearchArrives(r)
          /\ ~req'[r].name.present \/ OnlyWhitespace(req'[r].name.chars))
         => /\ req'[r].pc = "done"
            /\ req'[r].status = 400]_vars

(* The step in which a read path queries and answers. *)
ReadAnswers(r) ==
    /\ \/ req[r].op = "SearchByName" /\ req[r].pc = "search_query"
       \/ req[r].op = "History" /\ req[r].pc = "history_query"
    /\ req'[r].pc = "done"

(* C26: a Search or History which the database does not fail and whose     *)
(* gateway returns row arrays is answered 200 with one entry per row       *)
(* returned; the entry of a row whose dependents JSON does not parse has   *)
(* an empty dependents list, and every other entry has the dependents of   *)
(* its visit.                                                              *)
C26_MalformedDependents ==
    [][\A r \in Sequential :
         (/\ ReadAnswers(r)
          /\ faults' = faults
          /\ dbService.executeQuery = "recordset")
         => /\ req'[r].status = 200
            /\ Cardinality(req'[r].body) = Cardinality(req'[r].rows)
            /\ \A row \in req'[r].rows :
                  \E entry \in req'[r].body :
                     /\ entry.visit_id = row.visit_id
                     /\ req[r].op = "SearchByName" => entry.id = row.id
                     /\ entry.dependents =
                          IF row.malformed THEN {}
                          ELSE {d \in dependents : d.visit_id = row.visit_id}]_vars

(* A History has been answered 200 with two rows: one whose dependents     *)
(* JSON did not parse, with an empty list although its visit has a         *)
(* dependent, and one with the dependent of its visit.                     *)
C26_Witness ==
    \E r \in Sequential :
       /\ req[r].op = "History" /\ req[r].pc = "done" /\ req[r].status = 200
       /\ \E row \in req[r].rows, entry \in req[r].body :
             /\ row.malformed /\ entry.visit_id = row.visit_id
             /\ entry.dependents = {}
             /\ \E d \in dependents : d.visit_id = row.visit_id
       /\ \E row \in req[r].rows, entry \in req[r].body :
             /\ ~row.malformed /\ entry.visit_id = row.visit_id
             /\ entry.dependents # {}

---------------------------------------------------------------------------
(* The audit helper *)

(* The step in which a call of logAudit returns. *)
LogAuditReturns(r) ==
    /\ req[r].op = "logAudit" /\ req[r].pc = "audit_insert"
    /\ req'[r].pc = "done"

(* C27: every call of logAudit returns without throwing, whether the pool  *)
(* is unset or the insert fails, and changes no row of the visitor,        *)
(* visit and dependent tables.                                             *)
C27_LogAuditNeverThrows ==
    [][\A r \in Slots :
         LogAuditReturns(r)
         => /\ ~req'[r].threw
            /\ UNCHANGED <<visitors, visits, dependents, identity>>]_vars

(* A call of logAudit made after connectDb has returned normally although  *)
(* the database failed its insert.                                         *)
C27_Witness ==
    \E r \in Slots :
       /\ req[r].op = "logAudit" /\ req[r].pc = "done"
       /\ ~req[r].threw
       /\ req[r].message = AuditFailedMessage
       /\ dbService.pool
       /\ faults > 0

---------------------------------------------------------------------------
(* Transactions *)

(* The step in which SignIn runs its transaction and answers. *)
SignInAnswers(r) ==
    /\ req[r].op = "SignIn" /\ req[r].pc = "in_tx"
    /\ req'[r].pc = "done"

(* C28: the transaction of SignIn ends in one of two ways: answered 200,   *)
(* or, whichever of its statements failed (the begin, the visit insert, a  *)
(* dependent insert, the commit), answered 500 with the visits and the     *)
(* dependents as they were before it.                                      *)
C28_SignInAllOrNothing ==
    [][\A r \in Slots :
         SignInAnswers(r)
         => \/ req'[r].status = 200
            \/ /\ req'[r].status = 500
               /\ visits' = visits
               /\ dependents' = dependents
               /\ visitors' = visitors]_vars

(* A SignIn has been answered 500 after its visit insert and a dependent   *)
(* insert had run: the visit id it got is in no table, and the identity of *)
(* table dependents has moved past the stored rows.                        *)
C28_Witness ==
    \E r \in Slots :
       /\ req[r].op = "SignIn" /\ req[r].pc = "done" /\ req[r].status = 500
       /\ req[r].visitId # 0
       /\ \A w \in visits : w.id # req[r].visitId
       /\ \A d \in dependents : d.visit_id # req[r].visitId
       /\ \A d \in dependents : d.id < identity.dependents - 1
       /\ dependents # {}

(* C29: an UpdateAndSignIn that is answered 500 leaves neither the visit   *)
(* it inserted nor any dependent of that visit in the tables.              *)
C29_UpdateAllOrNothing ==
    [][\A r \in Sequential :
         (UpdateRollsBack(r) /\ req'[r].status = 500)
         => /\ \A w \in visits' : w.id # req[r].visitId
            /\ \A d \in dependents' : d.visit_id # req[r].visitId]_vars

(* The step in which one of the three transactional handlers answers. *)
TransactionAnswers(r) ==
    \/ RegisterAnswers(r)
    \/ SignInAnswers(r)
    \/ UpdateRollsBack(r)

(* C30: when the rollback of a Register, a SignIn or an UpdateAndSignIn    *)
(* fails, the request is still answered, and with 500.                     *)
C30_RollbackFailureKeepsAnswer ==
    [][\A r \in Slots :
         (TransactionAnswers(r) /\ req'[r].rollbackErr)
         => /\ req'[r].pc = "done"
            /\ req'[r].status = 500]_vars

(* A Register whose visitor insert had run has been answered 500 although  *)
(* its rollback failed.                                                    *)
C30_Witness ==
    \E r \in Slots :
       /\ req[r].op = "Register" /\ req[r].pc = "done"
       /\ req[r].rollbackErr
       /\ req[r].status = 500
       /\ identity.visitors > 1
       /\ visitors = {}

---------------------------------------------------------------------------
(* Interleaved registrations *)

(* C31: a Register that passed its pre-check and finds, at its visitor     *)
(* insert, a visitor of its name committed in between, is answered 409     *)
(* when the database fails none of its statements, and leaves the three    *)
(* tables as they were.                                                    *)
C31_ConcurrentDuplicateIsConflict ==
    [][\A r \in Slots :
         (/\ RegisterAnswers(r)
          /\ faults' = faults
          /\ \E v \in visitors : /\ v.first_name = req[r].first_name
                                 /\ v.last_name = req[r].last_name)
         => /\ req'[r].status = 409
            /\ UNCHANGED <<visitors, visits, dependents>>]_vars

---------------------------------------------------------------------------
(* Validation *)

(* C32: a dependents string that is not JSON is answered 400 before a      *)
(* transaction is begun and before a statement has run: a Register that    *)
(* carries one is answered 400 with the identities where they were, and an *)
(* UpdateAndSignIn that carries one goes no further than its answer 400.   *)
C32_ValidationBeforeTransaction ==
    [][\A r \in Sequential :
         /\ (RegisterAnswers(r) /\ ~req[r].additional_dependents.ok)
            => /\ req'[r].status = 400
               /\ identity' = identity
         /\ (/\ req'[r].op = "UpdateAndSignIn"
             /\ req'[r].dependentsData = <<"not JSON">>)
            => /\ req'[r].pc = "done"
               /\ req'[r].status = 400]_vars

---------------------------------------------------------------------------
(* C33: the exit_time of a visit, once set, stays what it is: no step      *)
(* changes it or sets it back to NULL, and a SignOut that is answered 200  *)
(* has closed a visit that was open.                                       *)
C33_ExitTimeWrittenOnce ==
    [][/\ \A v \in visits, w \in visits' :
            (v.id = w.id /\ v.exit_time # NULL) => w.exit_time = v.exit_time
       /\ \A r \in Slots :
            (SignOutAnswers(r) /\ req'[r].status = 200)
            => \E v \in visits : v.id = req[r].visitId /\ v.exit_time = NULL]_vars

(* C34: in a run of the job that follows at once a run whose three DELETEs *)
(* succeeded, with the same threshold, no DELETE removes a row and every   *)
(* counter stays zero.                                                     *)
C34_RetentionIdempotent ==
    [][(/\ JobDeletesStep
        /\ job.runs >= 1
        /\ audit_logs # <<>>
        /\ audit_logs[Len(audit_logs)].status = "OK")
       => /\ UNCHANGED <<visitors, visits, dependents>>
          /\ job'.deletedCounts =
               [dependents |-> 0, visits |-> 0, profiles |-> 0]]_vars

(* Two runs are over: the first deleted a dependent, a visit and a         *)
(* profile, the second recorded zero three times.                          *)
C34_Witness ==
    /\ job.pc = "idle"
    /\ Len(audit_logs) = 2
    /\ audit_logs[1].status = "OK"
    /\ audit_logs[1].dependents_deleted > 0
    /\ audit_logs[1].visits_deleted > 0
    /\ audit_logs[1].profiles_deleted > 0
    /\ audit_logs[2].status = "OK"
    /\ audit_logs[2].dependents_deleted = 0
    /\ audit_logs[2].visits_deleted = 0
    /\ audit_logs[2].profiles_deleted = 0

(* C35: while no request is in flight and the job is not running, every    *)
(* visitor that is not banned has at least one visit.                      *)
C35_RegisteredHasVisit ==
    ((\A s \in Slots : Free(s)) /\ job.pc = "idle")
    => \A v \in visitors :
          ~v.is_banned => \E w \in visits : w.visitor_id = v.id

---------------------------------------------------------------------------
(* The frame of the requests *)

(* The visit an UpdateAndSignIn inserted and is about to roll back: a row  *)
(* of its own transaction, not a committed one.                            *)
RolledBackBy(r, visitId) ==
    /\ req[r].op = "UpdateAndSignIn" /\ req[r].pc = "up_rollback"
    /\ req[r].visitId = visitId

(* C36: no step of a request deletes a visitor, a visit or a dependent     *)
(* that is committed, and none changes a field of an existing visit or     *)
(* dependent, except that the UPDATE of SignOut sets exit_time.            *)
C36_RequestsKeepRows ==
    [][/\ \A v \in visitors : \E w \in visitors' : w.id = v.id
       /\ \A v \in visits :
            (\E r \in Slots : RolledBackBy(r, v.id))
            \/ v \in visits'
            \/ \E r \in Slots, w \in visits' :
                  /\ SignOutAnswers(r)
                  /\ w = [v EXCEPT !.exit_time = w.exit_time]
       /\ \A d \in dependents :
            (\E r \in Slots : RolledBackBy(r, d.visit_id))
            \/ d \in dependents']_vars

(* A SignOut has closed the visit an earlier request added, and the rows   *)
(* that were stored before are as they were.                               *)
C36_Witness ==
    /\ \E r \in Slots :
          req[r].op = "SignOut" /\ req[r].pc = "done" /\ req[r].status = 200
    /\ \E v \in visits : v.id = 2 /\ v.exit_time # NULL
    /\ VisitRow(1, 1, 0, 0, "A1") \in visits
    /\ DependentRow(1, 1, "Kid") \in dependents
    /\ \E v \in visitors : v.id = 1 /\ v.is_banned

(* C37: every visit that is closed was entered no later than it was left. *)
C37_EntryNotAfterExit ==
    \A v \in visits : v.exit_time # NULL => v.entry_time <= v.exit_time

---------------------------------------------------------------------------
(* Responses *)

(* The identity columns have values left for the rows a request may        *)
(* insert.                                                                 *)
IdsLeft ==
    /\ identity.visitors <= MaxVisitorId
    /\ identity.visits <= MaxVisitId
    /\ identity.dependents + MaxDeclared <= MaxDependentId + 1

(* C38: every request that is in flight is answered in the end (unless    *)
(* the identity columns of the model run out first).                       *)
C38_EveryRequestAnswered ==
    \A r \in Sequential :
       (~Free(r)) ~> (req[r].pc = "done" \/ ~IdsLeft)

---------------------------------------------------------------------------
=============================================================================
